---- MODULE Spec2Model ----
(***************************************************************************)
(* Ingestion-and-retrieval pipeline of the Sailor RAG backend.             *)
(*                                                                         *)
(* The module holds one state machine per component, each with its own     *)
(* specification over the shared variables:                                *)
(*   SpecExtract   ProcessDocument._extract_with_pages                     *)
(*   SpecEmbed     EmbedDocument.execute over EmbeddingClient              *)
(*   SpecIngest    UploadDocument._process_document_pipeline               *)
(*   SpecUpload    UploadDocument.execute, concurrent requests             *)
(*   SpecStore     EmbeddingRepositoryQdrant.store_chunks                  *)
(*   SpecRetrieve  RetrieverQdrant.retrieve_similar_chunks                 *)
(*   SpecIndex     the upsert step of the pipeline, over store_chunks      *)
(*   SpecChunk     ChunkDocument.execute for one page                      *)
(*   SpecEnsure    EmbeddingRepositoryQdrant._ensure_collection_exists     *)
(* Collaborators outside the repository's logic (the PDF decoder, the      *)
(* embedding backends, Qdrant, PostgreSQL, blob storage) are modelled by   *)
(* their contract: a call returns a result of the documented shape or      *)
(* raises.                                                                 *)
(***************************************************************************)
EXTENDS Integers, Sequences, FiniteSets, TLC

VARIABLES
    \* ---- ProcessDocument._extract_with_pages
    page_data,          \* what pymupdf4llm.to_markdown returned (or "raise")
    ext_pc,             \* "call" | "returned" | "raised"
    page_chunks,        \* the returned list of <<page_num, content>>
    total_pages,        \* the returned total_pages
    \* ---- EmbedDocument.execute / EmbeddingClient
    texts_to_embed,     \* chunk contents, in chunk order
    BATCH_SIZE,         \* settings.embedding_request_batch_size
    emb_pc,             \* "call" | "gather" | "returned" | "raised"
    task,               \* per backend: the state of _generate_*_embeddings
    emb_result,         \* the pair execute returns
    \* ---- UploadDocument._process_document_pipeline
    pages_per_batch,    \* settings.pages_per_batch
    max_parallel_pages, \* settings.max_parallel_pages
    pl_pc,              \* position of the pipeline coroutine
    doc,                \* the Document entity the pipeline holds
    db_row,             \* the persisted row of that document
    page_documents,     \* the pages process.execute returned
    batch,              \* per page batch: the state of _chunk_and_embed_batch
    semaphore,          \* free permits of the asyncio.Semaphore
    collected,          \* all_chunks, all_dense, all_sparse, failed_batches
    upsert_calls,       \* the argument triples upsert.execute was called with
    faults,             \* which collaborator calls of the pipeline raised
    out_of_order,       \* history of one gather: a batch completed before a
                        \* batch of earlier pages did; kept until the lists
                        \* collected from it are handed to the upsert
    \* ---- UploadDocument.execute, one coroutine per request
    up_req,             \* per request: user_id and file_hash of the upload
    up_pc,              \* per request: position in execute
    up_seen,            \* per request: what get_by_hash answered
    up_result,          \* per request: the Document returned or the error raised
    db_docs,            \* rows of the documents table
    blobs,              \* storage paths that hold a file
    pipelines,          \* documents for which the background task was created
    up_atomic_error,    \* per request: atomic_error caught by the atomic block
    up_cleanup,         \* per request: outcome of the rollback's delete_file
    \* ---- Qdrant: the user's collection
    q_exists,           \* the collection exists
    q_points,           \* the points of the collection
    \* ---- EmbeddingRepositoryQdrant.store_chunks
    st_pc,              \* position in store_chunks
    st_args,            \* chunks, dense_embeddings, sparse_embeddings, batch_size
    st_idx,             \* batch_idx of the batch loop
    st_chunk_ids,       \* chunk_ids collected so far
    st_result,          \* the list returned or the error raised
    st_written,         \* per chunk id: vectors and payload of its last upsert
    st_replaced,        \* chunk ids the last call upserted again with other
                        \* vectors or payload
    st_call,            \* history of the last call: the ids of its chunks, its
                        \* batch_size and the client.upsert calls it made
    \* ---- RetrieverQdrant.retrieve_similar_chunks
    rt_pc,              \* position in retrieve_similar_chunks
    rt_args,            \* top_k, document_ids, expand_context, score_threshold
    rt_exists_answer,   \* what collection_exists answered
    rt_hits,            \* search_results of _search_qdrant
    rt_chunks,          \* retrieved_chunks, expanded in place
    rt_i,               \* position in high_scoring_chunks
    rt_result,          \* the list returned or the error raised
    rt_search_calls,    \* number of query_points calls
    rt_scroll_calls,    \* number of scroll calls
    \* ---- ChunkDocument.execute, called with one page
    ck_page,            \* the blocks of the page, in page order
    ck_pc,              \* "text" | "code" | "tables" | "sort" | "returned" | "raised"
    ck_i,               \* position in the block list being processed
    ck_positioned,      \* positioned_chunks
    ck_failed,          \* start_index of the blocks whose LLM request failed
    ck_result,          \* the chunks returned or the error raised
    \* ---- EmbeddingRepositoryQdrant._ensure_collection_exists
    q_schema,           \* named vectors and payload indexes of the collection
    en_pc,              \* position in _ensure_collection_exists
    en_size,            \* vector_size of the call
    en_i,               \* number of payload indexes the call has created
    en_calls,           \* number of calls made
    en_before,          \* the collection as it was when the call began
    en_created          \* the call created the collection

extractVars == <<page_data, ext_pc, page_chunks, total_pages>>
embedVars   == <<texts_to_embed, BATCH_SIZE, emb_pc, task, emb_result>>
ingestVars  == <<pages_per_batch, max_parallel_pages, pl_pc, doc, db_row,
                 page_documents, batch, semaphore, collected, upsert_calls,
                 faults, out_of_order>>
uploadVars  == <<up_req, up_pc, up_seen, up_result, db_docs, blobs, pipelines,
                 up_atomic_error, up_cleanup>>
qdrantVars  == <<q_exists, q_points>>
storeVars   == <<st_pc, st_args, st_idx, st_chunk_ids, st_result, st_written,
                 st_replaced, st_call>>
retrieveVars == <<rt_pc, rt_args, rt_exists_answer, rt_hits, rt_chunks, rt_i,
                  rt_result, rt_search_calls, rt_scroll_calls>>
chunkVars   == <<ck_page, ck_pc, ck_i, ck_positioned, ck_failed, ck_result>>
ensureVars  == <<q_schema, en_pc, en_size, en_i, en_calls, en_before,
                 en_created>>
vars        == <<extractVars, embedVars, ingestVars, uploadVars, qdrantVars,
                 storeVars, retrieveVars, chunkVars, ensureVars>>

\* The variables each component leaves alone
notChunk   == <<extractVars, embedVars, ingestVars, uploadVars, qdrantVars,
               storeVars, retrieveVars, ensureVars>>
notEnsure  == <<extractVars, embedVars, ingestVars, uploadVars, storeVars,
               retrieveVars, chunkVars>>
notExtract == <<chunkVars, ensureVars, retrieveVars, embedVars, ingestVars, uploadVars, qdrantVars, storeVars>>
notEmbed   == <<chunkVars, ensureVars, retrieveVars, extractVars, ingestVars, uploadVars, qdrantVars, storeVars>>
notIngest  == <<chunkVars, ensureVars, retrieveVars, extractVars, embedVars, uploadVars, storeVars>>
notUpload  == <<chunkVars, ensureVars, retrieveVars, extractVars, embedVars, ingestVars, qdrantVars, storeVars>>
notStore   == <<chunkVars, ensureVars, extractVars, embedVars, ingestVars, uploadVars, retrieveVars>>
notRetrieve == <<chunkVars, ensureVars, extractVars, embedVars, ingestVars, uploadVars, storeVars>>

-----------------------------------------------------------------------------
(* Generic helpers *)

Min(a, b) == IF a < b THEN a ELSE b

Range(s) == {s[i] : i \in 1..Len(s)}

\* All sequences over S of length 0..n
SeqsUpTo(S, n) == UNION {[1..k -> S] : k \in 0..n}

\* Python slice s[lo:hi] with 0-based lo, exclusive hi
Slice(s, lo, hi) == SubSeq(s, lo + 1, Min(hi, Len(s)))

\* All orderings of the elements of a sequence
Permutations1(s) ==
    {[i \in 1..Len(s) |-> s[p[i]]] :
        p \in {q \in [1..Len(s) -> 1..Len(s)] :
                  \A i, j \in 1..Len(s) : i # j => q[i] # q[j]}}

-----------------------------------------------------------------------------
(* ProcessDocument._extract_with_pages *)

MaxPhysicalPages == 3

WS == " "
\* Page texts: empty, whitespace only, text, text with surrounding whitespace
PageTexts == {<<>>, <<WS>>, <<"a">>, <<WS, "a">>}

\* str.strip(): drop leading and trailing whitespace
RECURSIVE LStrip(_)
LStrip(s) == IF s # <<>> /\ Head(s) = WS THEN LStrip(Tail(s)) ELSE s
RECURSIVE RStrip(_)
RStrip(s) == IF s # <<>> /\ s[Len(s)] = WS
             THEN RStrip(SubSeq(s, 1, Len(s) - 1)) ELSE s
Strip(s) == RStrip(LStrip(s))

\* A page dict of pymupdf4llm: metadata.page (0 = key absent) and text
PageDicts(i) == [page : {0, i}, text : PageTexts]

\* to_markdown(page_chunks=True): one dict per physical page, in page order
PageDataLists ==
    UNION { {pd \in [1..n -> UNION {PageDicts(i) : i \in 1..n}] :
                \A i \in 1..n : pd[i] \in PageDicts(i)} :
            n \in 0..MaxPhysicalPages }

\* page_dict.get('metadata', {}).get('page', i + 1), i the 0-based position
PageNum(page_dict, pos) == IF page_dict.page = 0 THEN pos ELSE page_dict.page

\* Lines 97-109: the loop keeps a page only when content.strip() is non-empty
RECURSIVE ExtractLoop(_, _, _)
ExtractLoop(pd, pos, acc) ==
    IF pos > Len(pd) THEN acc
    ELSE LET content == pd[pos].text
             kept == IF Strip(content) # <<>>
                     THEN Append(acc, <<PageNum(pd[pos], pos), content>>)
                     ELSE acc
         IN ExtractLoop(pd, pos + 1, kept)

InitExtractVars ==
    /\ page_data \in [kind : {"list"}, pages : PageDataLists]
                     \cup {[kind |-> "string", pages |-> <<>>],
                           [kind |-> "raise", pages |-> <<>>]}
    /\ ext_pc = "call"
    /\ page_chunks = <<>>
    /\ total_pages = 0

IdleExtractVars ==
    /\ page_data = [kind |-> "raise", pages |-> <<>>]
    /\ ext_pc = "idle"
    /\ page_chunks = <<>>
    /\ total_pages = 0

\* The list branch: one entry per page whose text is not blank
ExtractList ==
    /\ ext_pc = "call"
    /\ page_data.kind = "list"
    /\ page_chunks' = ExtractLoop(page_data.pages, 1, <<>>)
    /\ total_pages' = Len(page_chunks')
    /\ ext_pc' = "returned"
    /\ UNCHANGED <<page_data, notExtract>>

\* The fallback branch: the decoder returned one string
ExtractString ==
    /\ ext_pc = "call"
    /\ page_data.kind = "string"
    /\ page_chunks' = <<<<1, <<"a">>>>>>
    /\ total_pages' = 1
    /\ ext_pc' = "returned"
    /\ UNCHANGED <<page_data, notExtract>>

\* The decoder cannot open the file: DocumentProcessingError
ExtractRaise ==
    /\ ext_pc = "call"
    /\ page_data.kind = "raise"
    /\ ext_pc' = "raised"
    /\ UNCHANGED <<page_data, page_chunks, total_pages, notExtract>>

NextExtract == ExtractList \/ ExtractString \/ ExtractRaise

-----------------------------------------------------------------------------
(* EmbeddingClient and EmbedDocument.execute *)

MaxTexts == 3
MaxBatchSize == 3
max_retries == 3
retry_delay == 1

Texts == {"t1", "t2"}
Backends == {"dense", "sparse"}

\* What a backend computes for one text (services/*-embedding/app.py): the
\* embedding is a function of the text and of the backend
BackendEmbedding(b, text) == <<b, text>>

\* indexed_texts = [{"index": i, "text": text} for i, text in enumerate(texts)]
IndexedTexts(texts) == [i \in 1..Len(texts) |-> [index |-> i - 1, text |-> texts[i]]]

\* The responses a backend may send for a request: one item per request item,
\* carrying the item's index, listed in any order
Responses(b, indexed_texts) ==
    Permutations1([i \in 1..Len(indexed_texts) |->
        [index |-> indexed_texts[i].index,
         embedding |-> BackendEmbedding(b, indexed_texts[i].text)]])

\* list.sort(key=lambda x: x[0]): stable insertion by index
RECURSIVE InsertByIndex(_, _)
InsertByIndex(sorted, e) ==
    IF sorted = <<>> THEN <<e>>
    ELSE IF sorted[Len(sorted)].index <= e.index THEN Append(sorted, e)
    ELSE Append(InsertByIndex(SubSeq(sorted, 1, Len(sorted) - 1), e),
                sorted[Len(sorted)])

RECURSIVE SortFrom(_, _, _)
SortFrom(s, pos, acc) ==
    IF pos > Len(s) THEN acc ELSE SortFrom(s, pos + 1, InsertByIndex(acc, s[pos]))

\* A client that returns the embeddings in the order the response lists them
SortByIndexUnsorted(embeddings_with_index) == embeddings_with_index

SortByIndex(embeddings_with_index) == SortFrom(embeddings_with_index, 1, <<>>)

\* request(): re-sort the response by index and drop the index
RequestResult(response) ==
    LET sorted == SortByIndex(response)
    IN [i \in 1..Len(sorted) |-> sorted[i].embedding]

NewTask == [pc |-> "loop", i |-> 0, out |-> <<>>, attempt |-> 0, slept |-> <<>>]

InitEmbedVars ==
    /\ texts_to_embed \in SeqsUpTo(Texts, MaxTexts)
    /\ BATCH_SIZE \in 1..MaxBatchSize
    /\ emb_pc = "call"
    /\ task = [b \in Backends |-> NewTask]
    /\ emb_result = <<>>

IdleEmbedVars ==
    /\ texts_to_embed = <<>>
    /\ BATCH_SIZE = 1
    /\ emb_pc = "idle"
    /\ task = [b \in Backends |-> NewTask]
    /\ emb_result = <<>>

\* execute, lines 20-21: no chunks, nothing to embed
EmbedEmpty ==
    /\ emb_pc = "call"
    /\ texts_to_embed = <<>>
    /\ emb_result' = <<<<>>, <<>>>>
    /\ emb_pc' = "returned"
    /\ UNCHANGED <<texts_to_embed, BATCH_SIZE, task, notEmbed>>

\* execute, lines 24-27: both generators are started and gathered
EmbedStart ==
    /\ emb_pc = "call"
    /\ texts_to_embed # <<>>
    /\ emb_pc' = "gather"
    /\ UNCHANGED <<texts_to_embed, BATCH_SIZE, task, emb_result, notEmbed>>

TaskRuns(b) == emb_pc \in {"gather", "raised"} /\ task[b].pc = "loop"

\* One iteration of the batch loop whose request succeeds
RequestOk(b) ==
    /\ TaskRuns(b)
    /\ LET t == task[b]
           texts == Slice(texts_to_embed, t.i, t.i + BATCH_SIZE)
       IN \E response \in Responses(b, IndexedTexts(texts)) :
            task' = [task EXCEPT ![b] =
                [pc |-> IF t.i + BATCH_SIZE >= Len(texts_to_embed)
                        THEN "done" ELSE "loop",
                 i |-> t.i + BATCH_SIZE,
                 out |-> t.out \o RequestResult(response),
                 attempt |-> 0,
                 slept |-> <<>>]]
    /\ UNCHANGED <<texts_to_embed, BATCH_SIZE, emb_pc, emb_result, notEmbed>>

\* 2 ** attempt
RECURSIVE Pow2(_)
Pow2(n) == IF n = 0 THEN 1 ELSE 2 * Pow2(n - 1)

\* A backoff that waits the base delay every time
WaitTimeConstant(attempt) == retry_delay

\* Line 47: wait_time = self.retry_delay * (2 ** attempt)
WaitTime(attempt) == retry_delay * Pow2(attempt)

\* _retry_request: httpx.RequestError on the current attempt
RequestError(b) ==
    /\ TaskRuns(b)
    /\ LET t == task[b]
       IN IF t.attempt < max_retries - 1
          THEN task' = [task EXCEPT ![b].attempt = t.attempt + 1,
                                    ![b].slept = Append(t.slept,
                                                        WaitTime(t.attempt))]
          ELSE task' = [task EXCEPT ![b].pc = "raised"]
    /\ UNCHANGED <<texts_to_embed, BATCH_SIZE, emb_pc, emb_result, notEmbed>>

\* _retry_request, lines 52-54: any other exception is re-raised at once; the
\* HTTPStatusError of response.raise_for_status() (the backend answers 500 or
\* 503) is one, as it is not an httpx.RequestError
RequestOtherError(b) ==
    /\ TaskRuns(b)
    /\ task' = [task EXCEPT ![b].pc = "raised"]
    /\ UNCHANGED <<texts_to_embed, BATCH_SIZE, emb_pc, emb_result, notEmbed>>

\* gather resolves: both generators returned
GatherReturn ==
    /\ emb_pc = "gather"
    /\ \A b \in Backends : task[b].pc = "done"
    /\ emb_result' = <<task["dense"].out, task["sparse"].out>>
    /\ emb_pc' = "returned"
    /\ UNCHANGED <<texts_to_embed, BATCH_SIZE, task, notEmbed>>

\* gather propagates the first exception: EmbeddingError
GatherRaise ==
    /\ emb_pc = "gather"
    /\ \E b \in Backends : task[b].pc = "raised"
    /\ emb_pc' = "raised"
    /\ UNCHANGED <<texts_to_embed, BATCH_SIZE, task, emb_result, notEmbed>>

NextEmbed ==
    \/ EmbedEmpty
    \/ EmbedStart
    \/ \E b \in Backends : RequestOk(b)
    \/ \E b \in Backends : RequestError(b)
    \/ \E b \in Backends : RequestOtherError(b)
    \/ GatherReturn
    \/ GatherRaise

-----------------------------------------------------------------------------
(* Chunks, their embeddings and their points *)

embedding_batch_size == 32

\* A DocumentChunk as ChunkDocument builds it for a text block
DocChunk(id, document_id, content, chunk_index, page_number) ==
    [id |-> id, document_id |-> document_id, content |-> content,
     chunk_index |-> chunk_index, page_number |-> page_number,
     token_count |-> Len(content),
     metadata |-> [type |-> "text", chunker |-> "sentence"]]

\* The dense and the sparse embedding the models give for a text
DenseVector(text) == <<"dense", text>>
SparseVector(text) == [indices |-> <<"indices", text>>,
                       values |-> <<"values", text>>]

\* A point id taken from the chunk's sequence index instead of its id
PointIdFromIndex(chunk) == chunk.chunk_index

\* Line 134: point_id = chunk.id
PointId(chunk) == chunk.id

\* Lines 137-144
Payload(chunk) ==
    [document_id |-> chunk.document_id, content |-> chunk.content,
     chunk_index |-> chunk.chunk_index, page_number |-> chunk.page_number,
     token_count |-> chunk.token_count, metadata |-> chunk.metadata]

\* Lines 148-158
PointStruct(chunk, dense, sparse) ==
    [id |-> PointId(chunk),
     vector |-> [text_dense |-> dense,
                 text_sparse |-> [indices |-> sparse.indices,
                                  values |-> sparse.values]],
     payload |-> Payload(chunk)]

\* client.upsert: a point whose id is in the collection is overwritten, any
\* other is inserted; of two points of the request with one id the later stays
Upsert(points, request) ==
    LET ids == {request[i].id : i \in 1..Len(request)}
        last == {i \in 1..Len(request) :
                    \A j \in (i + 1)..Len(request) : request[j].id # request[i].id}
    IN {p \in points : p.id \notin ids} \cup {request[i] : i \in last}

\* store_chunks, lines 120-166: the collection after the first n batches of
\* batch_size chunks were built and upserted
RECURSIVE UpsertBatches(_, _, _, _, _, _)
UpsertBatches(points, chunks, dense_embeddings, sparse_embeddings, batch_size, n) ==
    IF n = 0 \/ chunks = <<>> THEN points
    ELSE LET batch_chunks == Slice(chunks, 0, batch_size)
             batch_dense == Slice(dense_embeddings, 0, batch_size)
             batch_sparse == Slice(sparse_embeddings, 0, batch_size)
             points_to_upsert ==
                 [i \in 1..Len(batch_chunks) |->
                     PointStruct(batch_chunks[i], batch_dense[i], batch_sparse[i])]
         IN UpsertBatches(Upsert(points, points_to_upsert),
                          Slice(chunks, batch_size, Len(chunks)),
                          Slice(dense_embeddings, batch_size, Len(dense_embeddings)),
                          Slice(sparse_embeddings, batch_size, Len(sparse_embeddings)),
                          batch_size, n - 1)

\* total_batches, line 114
TotalBatches(total_chunks, batch_size) ==
    (total_chunks + batch_size - 1) \div batch_size

-----------------------------------------------------------------------------
(* ChunkDocument.execute *)

\* Lines 48-82 for a list of pages, each page given as <<page_number, n>> with
\* n the number of chunks its blocks yield in position order: the chunks of
\* every page get the page number, and all chunks of the call are numbered
\* 0, 1, ... in order.
RECURSIVE PageChunks(_, _, _)
PageChunks(page, k, first_index) ==
    IF k >= page[2] THEN <<>>
    ELSE <<DocChunk(<<page[1], k>>, "d1", <<"text", page[1], k>>,
                    first_index + k, page[1])>>
         \o PageChunks(page, k + 1, first_index)

RECURSIVE ChunkExecute(_, _)
ChunkExecute(pages, first_index) ==
    IF pages = <<>> THEN <<>>
    ELSE PageChunks(Head(pages), 0, first_index)
         \o ChunkExecute(Tail(pages), first_index + Head(pages)[2])

\* _chunk_and_embed_batch, lines 76-79: chunk.execute is called once per page,
\* with a one-page list
RECURSIVE ChunkBatch(_)
ChunkBatch(page_batch) ==
    IF page_batch = <<>> THEN <<>>
    ELSE ChunkExecute(<<Head(page_batch)>>, 0) \o ChunkBatch(Tail(page_batch))

-----------------------------------------------------------------------------
(* UploadDocument._process_document_pipeline and _chunk_and_embed_batch *)

MaxPages == 3
MaxChunksPerPage == 1
MaxPagesPerBatch == 2
MaxParallel == 2

\* page_batches, lines 122-125
RECURSIVE PageBatches(_, _)
PageBatches(pages, per_batch) ==
    IF pages = <<>> THEN <<>>
    ELSE <<Slice(pages, 0, per_batch)>>
         \o PageBatches(Slice(pages, per_batch, Len(pages)), per_batch)

\* What embed.execute returns for a chunk list (order preserved, see C1)
EmbedAll(b, chunks) ==
    [i \in 1..Len(chunks) |->
        IF b = "dense" THEN DenseVector(chunks[i].content)
        ELSE SparseVector(chunks[i].content)]

EmptyTriple == [chunks |-> <<>>, dense |-> <<>>, sparse |-> <<>>]

\* A batch whose exception leaves _chunk_and_embed_batch
BatchExceptPropagates == [outcome |-> "raise", result |-> EmptyTriple]

\* Lines 89-91: the except branch logs and returns three empty lists
BatchExcept == [outcome |-> "return", result |-> EmptyTriple]

\* A handler that leaves the status as it is
HandlerStatusKept(status) == status

\* Line 183: the pipeline's except branch marks the document failed
HandlerStatus(status) == "failed"

NewDoc == [status |-> "processing", total_pages |-> 0, chunks_count |-> 0,
           error_message |-> "none"]

InitIngestVars ==
    /\ pages_per_batch \in 1..MaxPagesPerBatch
    /\ max_parallel_pages \in 1..MaxParallel
    /\ pl_pc = "extract"
    /\ doc = NewDoc
    /\ db_row = NewDoc
    /\ page_documents = <<>>
    /\ batch = <<>>
    /\ semaphore = 0
    /\ collected = [chunks |-> <<>>, dense |-> <<>>, sparse |-> <<>>,
                    failed_batches |-> 0]
    /\ upsert_calls = <<>>
    /\ faults = {}
    /\ out_of_order = FALSE

IdleIngestVars ==
    /\ pages_per_batch = 1
    /\ max_parallel_pages = 1
    /\ pl_pc = "idle"
    /\ doc = NewDoc
    /\ db_row = NewDoc
    /\ page_documents = <<>>
    /\ batch = <<>>
    /\ semaphore = 0
    /\ collected = [chunks |-> <<>>, dense |-> <<>>, sparse |-> <<>>,
                    failed_batches |-> 0]
    /\ upsert_calls = <<>>
    /\ faults = {}
    /\ out_of_order = FALSE

\* DocumentRepositoryPg.update: filename, status, chunks_count and
\* error_message of the entity are written to the row
UpdatedRow(row, entity) ==
    [row EXCEPT !.status = entity.status,
                !.chunks_count = entity.chunks_count,
                !.error_message = entity.error_message]

\* Line 115: process.execute returns the pages
PipeExtractOk ==
    /\ pl_pc = "extract"
    /\ \E n \in 0..MaxPages :
        \E blocks \in [1..n -> 0..MaxChunksPerPage] :
            page_documents' = [i \in 1..n |-> <<i, blocks[i]>>]
    /\ pl_pc' = "update_pages"
    /\ UNCHANGED <<pages_per_batch, max_parallel_pages, doc, db_row, batch,
                   semaphore, collected, upsert_calls, faults, out_of_order,
                   qdrantVars, notIngest>>

\* Line 115: process.execute raises
PipeExtractRaise ==
    /\ pl_pc = "extract"
    /\ faults' = faults \cup {"extract"}
    /\ pl_pc' = "handler"
    /\ UNCHANGED <<pages_per_batch, max_parallel_pages, doc, db_row,
                   page_documents, batch, semaphore, collected, upsert_calls,
                   out_of_order,
                   qdrantVars, notIngest>>

\* Lines 118-139: total_pages is updated, the batches, the semaphore and the
\* tasks are created and gathered
PipeUpdatePagesOk ==
    /\ pl_pc = "update_pages"
    /\ doc' = [doc EXCEPT !.total_pages = Len(page_documents)]
    /\ db_row' = UpdatedRow(db_row, doc')
    /\ LET page_batches == PageBatches(page_documents, pages_per_batch)
       IN batch' = [b \in 1..Len(page_batches) |->
                       [pc |-> "waiting", pages |-> page_batches[b],
                        chunks |-> <<>>, raised |-> FALSE,
                        outcome |-> "none", result |-> EmptyTriple]]
    /\ semaphore' = max_parallel_pages
    /\ pl_pc' = "gather"
    /\ UNCHANGED <<pages_per_batch, max_parallel_pages, page_documents,
                   collected, upsert_calls, faults, out_of_order,
                   qdrantVars, notIngest>>

\* Line 119: document_repo.update raises
PipeUpdatePagesRaise ==
    /\ pl_pc = "update_pages"
    /\ doc' = [doc EXCEPT !.total_pages = Len(page_documents)]
    /\ faults' = faults \cup {"update_pages"}
    /\ pl_pc' = "handler"
    /\ UNCHANGED <<pages_per_batch, max_parallel_pages, db_row, page_documents,
                   batch, semaphore, collected, upsert_calls, out_of_order,
                   qdrantVars, notIngest>>

BatchFrame == <<pages_per_batch, max_parallel_pages, pl_pc, doc, db_row,
                page_documents, collected, upsert_calls, faults, qdrantVars,
                notIngest>>

\* A semaphore that lets every coroutine in
CanAcquireAlways(value) == TRUE

\* asyncio.Semaphore.acquire returns at once only while the value is positive
CanAcquire(value) == value > 0

\* Line 71: async with semaphore
BatchAcquire(b) ==
    /\ pl_pc = "gather"
    /\ batch[b].pc = "waiting"
    /\ CanAcquire(semaphore)
    /\ semaphore' = semaphore - 1
    /\ batch' = [batch EXCEPT ![b].pc = "chunking"]
    /\ UNCHANGED out_of_order
    /\ UNCHANGED BatchFrame

\* A semaphore whose permit is lost when the body failed
ReleaseOnSuccessOnly(value, raised) == IF raised THEN value ELSE value + 1

\* Line 71: leaving async with releases the permit however the body ended
Release(value, raised) == value + 1

\* The batch returns or raises: the semaphore is released on the way out and
\* the locals of the coroutine are gone
BatchLeaves(b, how, raised) ==
    /\ batch' = [batch EXCEPT ![b].pc = "done",
                              ![b].chunks = <<>>,
                              ![b].raised = raised,
                              ![b].outcome = how.outcome,
                              ![b].result = how.result]
    /\ semaphore' = Release(semaphore, raised)
    /\ out_of_order' = (out_of_order
                         \/ \E a \in 1..(b - 1) : batch[a].pc # "done")

\* Lines 76-82: every page of the batch is chunked
BatchChunkOk(b) ==
    /\ pl_pc = "gather"
    /\ batch[b].pc = "chunking"
    /\ LET all_batch_chunks == ChunkBatch(batch[b].pages)
       IN IF all_batch_chunks = <<>>
          THEN BatchLeaves(b, [outcome |-> "return", result |-> EmptyTriple], FALSE)
          ELSE /\ batch' = [batch EXCEPT ![b].pc = "embedding",
                                         ![b].chunks = all_batch_chunks]
               /\ UNCHANGED <<semaphore, out_of_order>>
    /\ UNCHANGED BatchFrame

\* Line 78 raises ChunkingError
BatchChunkRaise(b) ==
    /\ pl_pc = "gather"
    /\ batch[b].pc = "chunking"
    /\ BatchLeaves(b, BatchExcept, TRUE)
    /\ UNCHANGED BatchFrame

\* Lines 84-87: the chunks are embedded and returned with their embeddings
BatchEmbedOk(b) ==
    /\ pl_pc = "gather"
    /\ batch[b].pc = "embedding"
    /\ BatchLeaves(b, [outcome |-> "return",
                       result |-> [chunks |-> batch[b].chunks,
                                   dense |-> EmbedAll("dense", batch[b].chunks),
                                   sparse |-> EmbedAll("sparse", batch[b].chunks)]],
                   FALSE)
    /\ UNCHANGED BatchFrame

\* Line 84 raises EmbeddingError
BatchEmbedRaise(b) ==
    /\ pl_pc = "gather"
    /\ batch[b].pc = "embedding"
    /\ BatchLeaves(b, BatchExcept, TRUE)
    /\ UNCHANGED BatchFrame

\* A collection loop that puts every later batch in front
RECURSIVE CollectLastFirst(_, _, _)
CollectLastFirst(results, pos, acc) ==
    IF pos > Len(results) THEN acc
    ELSE CollectLastFirst(results, pos + 1,
            [chunks |-> results[pos].chunks \o acc.chunks,
             dense |-> results[pos].dense \o acc.dense,
             sparse |-> results[pos].sparse \o acc.sparse,
             failed_batches |-> acc.failed_batches
                                + (IF results[pos].chunks = <<>> THEN 1 ELSE 0)])

\* A collection loop that puts the dense embeddings of a batch in front
RECURSIVE CollectDenseInFront(_, _, _)
CollectDenseInFront(results, pos, acc) ==
    IF pos > Len(results) THEN acc
    ELSE CollectDenseInFront(results, pos + 1,
            [chunks |-> acc.chunks \o results[pos].chunks,
             dense |-> results[pos].dense \o acc.dense,
             sparse |-> acc.sparse \o results[pos].sparse,
             failed_batches |-> acc.failed_batches
                                + (IF results[pos].chunks = <<>> THEN 1 ELSE 0)])

\* Lines 142-152: the results are concatenated in batch order; a batch with
\* no chunks counts as failed
RECURSIVE Collect(_, _, _)
Collect(results, pos, acc) ==
    IF pos > Len(results) THEN acc
    ELSE Collect(results, pos + 1,
            [chunks |-> acc.chunks \o results[pos].chunks,
             dense |-> acc.dense \o results[pos].dense,
             sparse |-> acc.sparse \o results[pos].sparse,
             failed_batches |-> acc.failed_batches
                                + (IF results[pos].chunks = <<>> THEN 1 ELSE 0)])

\* Lines 139-159: gather resolved; the results are collected
PipeCollect ==
    /\ pl_pc = "gather"
    /\ \A b \in 1..Len(batch) : batch[b].pc = "done"
    /\ IF \E b \in 1..Len(batch) : batch[b].outcome = "raise"
       THEN /\ pl_pc' = "handler"
            /\ UNCHANGED collected
       ELSE /\ collected' = Collect([b \in 1..Len(batch) |-> batch[b].result], 1,
                                    [chunks |-> <<>>, dense |-> <<>>,
                                     sparse |-> <<>>, failed_batches |-> 0])
            /\ pl_pc' = IF collected'.chunks # <<>> THEN "upsert" ELSE "final_update"
    /\ out_of_order' = (out_of_order /\ pl_pc' = "upsert")
    /\ UNCHANGED <<pages_per_batch, max_parallel_pages, doc, db_row,
                   page_documents, batch, semaphore, upsert_calls, faults,
                   qdrantVars, notIngest>>

UpsertArgs == [chunks |-> collected.chunks, dense |-> collected.dense,
               sparse |-> collected.sparse]

\* An update that writes the row and raises afterwards
RowWhenUpdateRaisesWritten(row, entity) == UpdatedRow(row, entity)

\* DocumentRepositoryPg.update lines 93-111: an update that raises leaves the
\* row as it was
RowWhenUpdateRaises(row, entity) == row

\* Lines 160-166: upsert.execute has store_chunks ensure the collection and
\* upsert every batch, and returns the number of ids
PipeUpsertOk ==
    /\ pl_pc = "upsert"
    /\ upsert_calls' = Append(upsert_calls, UpsertArgs)
    /\ q_exists' = TRUE
    /\ q_points' = UpsertBatches(q_points, collected.chunks, collected.dense,
                                 collected.sparse, embedding_batch_size,
                                 TotalBatches(Len(collected.chunks),
                                              embedding_batch_size))
    /\ doc' = [doc EXCEPT !.chunks_count = Len(collected.chunks)]
    /\ pl_pc' = "final_update"
    /\ out_of_order' = FALSE
    /\ UNCHANGED <<pages_per_batch, max_parallel_pages, db_row, page_documents,
                   batch, semaphore, collected, faults, notIngest>>

\* Lines 160-166: upsert.execute raises VectorStoreError, because ensuring
\* the collection failed or because the upsert of batch n + 1 failed; the
\* batches before it stay stored
PipeUpsertRaise ==
    /\ pl_pc = "upsert"
    /\ upsert_calls' = Append(upsert_calls, UpsertArgs)
    /\ \E ensured \in BOOLEAN,
          n \in 0..(TotalBatches(Len(collected.chunks),
                                 embedding_batch_size) - 1) :
          /\ n > 0 => ensured
          /\ q_exists' = (q_exists \/ ensured)
          /\ q_points' = UpsertBatches(q_points, collected.chunks,
                                       collected.dense, collected.sparse,
                                       embedding_batch_size, n)
    /\ faults' = faults \cup {"upsert"}
    /\ pl_pc' = "handler"
    /\ out_of_order' = FALSE
    /\ UNCHANGED <<pages_per_batch, max_parallel_pages, doc, db_row,
                   page_documents, batch, semaphore, collected, notIngest>>

\* Lines 169-174: the final counts and status are persisted
PipeFinalUpdateOk ==
    /\ pl_pc = "final_update"
    /\ doc' = [doc EXCEPT !.status = "completed"]
    /\ db_row' = UpdatedRow(db_row, doc')
    /\ pl_pc' = "done"
    /\ UNCHANGED <<pages_per_batch, max_parallel_pages, page_documents, batch,
                   semaphore, collected, upsert_calls, faults, out_of_order,
                   qdrantVars, notIngest>>

\* Line 174: document_repo.update raises
PipeFinalUpdateRaise ==
    /\ pl_pc = "final_update"
    /\ doc' = [doc EXCEPT !.status = "completed"]
    /\ db_row' = RowWhenUpdateRaises(db_row, doc')
    /\ faults' = faults \cup {"final_update"}
    /\ pl_pc' = "handler"
    /\ UNCHANGED <<pages_per_batch, max_parallel_pages, page_documents,
                   batch, semaphore, collected, upsert_calls, out_of_order,
                   qdrantVars, notIngest>>

\* Lines 178-186: the except branch marks the document failed
PipeHandlerOk ==
    /\ pl_pc = "handler"
    /\ doc' = [doc EXCEPT !.status = HandlerStatus(doc.status),
                          !.error_message = "error"]
    /\ db_row' = UpdatedRow(db_row, doc')
    /\ pl_pc' = "done"
    /\ UNCHANGED <<pages_per_batch, max_parallel_pages, page_documents, batch,
                   semaphore, collected, upsert_calls, faults, out_of_order,
                   qdrantVars, notIngest>>

\* Lines 186-188: the update of the except branch raises; it is only logged
PipeHandlerRaise ==
    /\ pl_pc = "handler"
    /\ doc' = [doc EXCEPT !.status = HandlerStatus(doc.status),
                          !.error_message = "error"]
    /\ faults' = faults \cup {"handler_update"}
    /\ pl_pc' = "done"
    /\ UNCHANGED <<pages_per_batch, max_parallel_pages, db_row, page_documents,
                   batch, semaphore, collected, upsert_calls, out_of_order,
                   qdrantVars, notIngest>>

NextIngest ==
    \/ PipeExtractOk
    \/ PipeExtractRaise
    \/ PipeUpdatePagesOk
    \/ PipeUpdatePagesRaise
    \/ \E b \in 1..Len(batch) : BatchAcquire(b)
    \/ \E b \in 1..Len(batch) : BatchChunkOk(b)
    \/ \E b \in 1..Len(batch) : BatchChunkRaise(b)
    \/ \E b \in 1..Len(batch) : BatchEmbedOk(b)
    \/ \E b \in 1..Len(batch) : BatchEmbedRaise(b)
    \/ PipeCollect
    \/ PipeUpsertOk
    \/ PipeUpsertRaise
    \/ PipeFinalUpdateOk
    \/ PipeFinalUpdateRaise
    \/ PipeHandlerOk
    \/ PipeHandlerRaise

-----------------------------------------------------------------------------
(* UploadDocument.execute *)

MaxRequests == 2

Users == {"u1", "u2"}
Hashes == {"h1", "h2"}
Requests == 1..MaxRequests

NoResult == [kind |-> "none", ref |-> 0]

\* The error of a cleanup that failed, raised in place of the atomic error
RaisedAfterRollbackCleanup(atomic_error, cleanup_error) ==
    IF cleanup_error # "none" THEN cleanup_error ELSE atomic_error

\* Lines 247-255: cleanup_error is logged, atomic_error is raised
RaisedAfterRollback(atomic_error, cleanup_error) == atomic_error

\* The rows get_by_hash selects: same user, same file hash
RowsByHash(user_id, file_hash) ==
    {d \in db_docs : d.user_id = user_id /\ d.file_hash = file_hash}

\* An execute that never takes the duplicate branch
IsDuplicateIgnored(matches) == FALSE

\* Line 217: if existing_doc
IsDuplicate(matches) == matches # {}

\* An execute that starts the background task whatever the save did
TaskCreatedAlways(saved) == TRUE

\* Lines 257-260: create_task follows the atomic block and is reached only
\* when upload_file and save returned; its except branch re-raises
TaskCreated(saved) == saved

InitUploadVars ==
    /\ up_req \in [Requests -> [user_id : Users, file_hash : Hashes]]
    /\ up_pc = [r \in Requests |-> "start"]
    /\ up_seen = [r \in Requests |-> "unchecked"]
    /\ up_result = [r \in Requests |-> NoResult]
    /\ up_atomic_error = [r \in Requests |-> "none"]
    /\ up_cleanup = [r \in Requests |-> "none"]
    /\ db_docs = {}
    /\ blobs = {}
    /\ pipelines = {}

IdleUploadVars ==
    /\ up_req = <<>>
    /\ up_pc = <<>>
    /\ up_seen = <<>>
    /\ up_result = <<>>
    /\ up_atomic_error = <<>>
    /\ up_cleanup = <<>>
    /\ db_docs = {}
    /\ blobs = {}
    /\ pipelines = {}

\* Lines 215-218: the hash lookup returns; a match raises the duplicate error,
\* which names the matching document (the first row of the query)
UpGetByHash(r) ==
    /\ up_pc[r] = "start"
    /\ LET matches == RowsByHash(up_req[r].user_id, up_req[r].file_hash)
       IN IF IsDuplicate(matches)
          THEN /\ \E existing_doc \in matches :
                    up_result' = [up_result EXCEPT ![r] =
                        [kind |-> "duplicate", ref |-> existing_doc.id]]
               /\ up_pc' = [up_pc EXCEPT ![r] = "raised"]
               /\ up_seen' = [up_seen EXCEPT ![r] = "present"]
          ELSE /\ up_pc' = [up_pc EXCEPT ![r] = "upload"]
               /\ up_seen' = [up_seen EXCEPT ![r] =
                                IF matches # {} THEN "present" ELSE "absent"]
               /\ UNCHANGED up_result
    /\ UNCHANGED <<up_req, up_atomic_error, up_cleanup, db_docs, blobs, pipelines, notUpload>>

\* Line 216: the lookup itself raises
UpGetByHashRaise(r) ==
    /\ up_pc[r] = "start"
    /\ up_pc' = [up_pc EXCEPT ![r] = "raised"]
    /\ up_seen' = [up_seen EXCEPT ![r] = "lookup_raised"]
    /\ up_result' = [up_result EXCEPT ![r] = [kind |-> "get_by_hash", ref |-> 0]]
    /\ UNCHANGED <<up_req, up_atomic_error, up_cleanup, db_docs, blobs, pipelines, notUpload>>

\* Line 225: the file is stored under the request's storage path
UpUploadOk(r) ==
    /\ up_pc[r] = "upload"
    /\ blobs' = blobs \cup {r}
    /\ up_pc' = [up_pc EXCEPT ![r] = "save"]
    /\ UNCHANGED <<up_req, up_atomic_error, up_cleanup, up_seen, up_result, db_docs, pipelines, notUpload>>

\* Line 225 raises: the except branch of the atomic block runs
UpUploadRaise(r) ==
    /\ up_pc[r] = "upload"
    /\ up_pc' = [up_pc EXCEPT ![r] = "rollback"]
    /\ up_atomic_error' = [up_atomic_error EXCEPT ![r] = "upload_file"]
    /\ UNCHANGED <<up_req, up_cleanup, up_seen, up_result, db_docs, blobs, pipelines,
                   notUpload>>

\* Lines 228-265: the row is saved with status processing, the background
\* task is created and the Document is returned
UpSaveOk(r) ==
    /\ up_pc[r] = "save"
    /\ db_docs' = db_docs \cup {[id |-> r, user_id |-> up_req[r].user_id,
                                 file_hash |-> up_req[r].file_hash,
                                 status |-> "processing"]}
    /\ pipelines' = IF TaskCreated(TRUE) THEN pipelines \cup {r} ELSE pipelines
    /\ up_result' = [up_result EXCEPT ![r] = [kind |-> "document", ref |-> r]]
    /\ up_pc' = [up_pc EXCEPT ![r] = "returned"]
    /\ UNCHANGED <<up_req, up_atomic_error, up_cleanup, up_seen, blobs, notUpload>>

\* Line 243 raises
UpSaveRaise(r) ==
    /\ up_pc[r] = "save"
    /\ up_pc' = [up_pc EXCEPT ![r] = "rollback"]
    /\ up_atomic_error' = [up_atomic_error EXCEPT ![r] = "save"]
    /\ pipelines' = IF TaskCreated(FALSE) THEN pipelines \cup {r} ELSE pipelines
    /\ UNCHANGED <<up_req, up_cleanup, up_seen, up_result, db_docs, blobs,
                   notUpload>>

\* Lines 250-255: the file is deleted and the atomic error re-raised
UpRollbackOk(r) ==
    /\ up_pc[r] = "rollback"
    /\ blobs' = blobs \ {r}
    /\ up_cleanup' = [up_cleanup EXCEPT ![r] = "deleted"]
    /\ up_result' = [up_result EXCEPT ![r] =
           [kind |-> RaisedAfterRollback(up_atomic_error[r], "none"),
            ref |-> 0]]
    /\ up_pc' = [up_pc EXCEPT ![r] = "raised"]
    /\ UNCHANGED <<up_req, up_atomic_error, up_seen, db_docs, pipelines,
                   notUpload>>

\* Lines 253-255: the delete raises, it is logged, the atomic error re-raised
UpRollbackRaise(r) ==
    /\ up_pc[r] = "rollback"
    /\ up_cleanup' = [up_cleanup EXCEPT ![r] = "delete_file"]
    /\ up_result' = [up_result EXCEPT ![r] =
           [kind |-> RaisedAfterRollback(up_atomic_error[r], "delete_file"),
            ref |-> 0]]
    /\ up_pc' = [up_pc EXCEPT ![r] = "raised"]
    /\ UNCHANGED <<up_req, up_atomic_error, up_seen, db_docs, blobs, pipelines,
                   notUpload>>

NextUpload ==
    \/ \E r \in Requests : UpGetByHash(r)
    \/ \E r \in Requests : UpGetByHashRaise(r)
    \/ \E r \in Requests : UpUploadOk(r)
    \/ \E r \in Requests : UpUploadRaise(r)
    \/ \E r \in Requests : UpSaveOk(r)
    \/ \E r \in Requests : UpSaveRaise(r)
    \/ \E r \in Requests : UpRollbackOk(r)
    \/ \E r \in Requests : UpRollbackRaise(r)

-----------------------------------------------------------------------------
(* Qdrant collection and EmbeddingRepositoryQdrant.store_chunks *)

MaxChunkIds == 3
MaxStoreChunks == 3
MaxStoreBatch == 2

ChunkIds == 1..MaxChunkIds
Contents == {<<"a">>, <<"b">>}

\* The chunks of one call carry distinct ids (uuid4 per chunk); a call passes
\* the first n chunks of the document, each with either content
ChunkLists ==
    UNION {{[i \in 1..n |-> DocChunk(i, "d1", content[i], i - 1, 1)] :
               content \in [1..n -> Contents]} :
           n \in 0..Min(MaxChunkIds, MaxStoreChunks)}

\* st_written holds <<>> for an id not written yet, else <<vectors and payload>>
NotWritten == <<>>
NoStoreResult == [kind |-> "none", ids |-> <<>>]
NoStoreCall == [ids |-> <<>>, batch_size |-> 0, upserts |-> <<>>]

\* A batch loop that sends all remaining chunks in one request
BatchEndAll(batch_idx, batch_size, total_chunks) == total_chunks

\* The ids of the client.upsert calls of the last store_chunks call, joined
RECURSIVE UpsertedIds(_)
UpsertedIds(upserts) ==
    IF upserts = <<>> THEN <<>>
    ELSE Head(upserts).ids \o UpsertedIds(Tail(upserts))

\* An error branch that deletes the points the call had stored
PointsAfterErrorRolledBack(points, stored_ids) ==
    {p \in points : \A i \in 1..Len(stored_ids) : p.id # stored_ids[i]}

\* Lines 173-175: the error is logged and raised as VectorStoreError; the
\* collection is not touched
PointsAfterError(points, stored_ids) == points

\* Line 121
BatchEnd(batch_idx, batch_size, total_chunks) ==
    Min(batch_idx + batch_size, total_chunks)

InitQdrantVars ==
    /\ q_exists = FALSE
    /\ q_points = {}

InitStoreVars ==
    /\ st_pc = "ready"
    /\ st_args = <<>>
    /\ st_idx = 0
    /\ st_chunk_ids = <<>>
    /\ st_result = NoStoreResult
    /\ st_written = [c \in ChunkIds |-> NotWritten]
    /\ st_replaced = {}
    /\ st_call = NoStoreCall

IdleStoreVars ==
    /\ st_pc = "idle"
    /\ st_args = <<>>
    /\ st_idx = 0
    /\ st_chunk_ids = <<>>
    /\ st_result = NoStoreResult
    /\ st_written = <<>>
    /\ st_replaced = {}
    /\ st_call = NoStoreCall

\* Lines 73-110: a call of store_chunks; without embeddings the collection is
\* not ensured, without chunks the call returns []
StoreCall ==
    /\ st_pc \in {"ready", "returned", "raised"}
    /\ \E cs \in ChunkLists, batch_size \in 1..MaxStoreBatch :
          /\ st_args' =
                IF Len(cs) > 0
                THEN [chunks |-> cs,
                      dense_embeddings |->
                          [i \in 1..Len(cs) |-> DenseVector(cs[i].content)],
                      sparse_embeddings |->
                          [i \in 1..Len(cs) |-> SparseVector(cs[i].content)],
                      batch_size |-> batch_size]
                ELSE <<>>
          /\ st_pc' = IF Len(cs) > 0 THEN "ensure" ELSE "returned"
          /\ st_call' = [ids |-> [i \in 1..Len(cs) |-> cs[i].id],
                         batch_size |-> batch_size, upserts |-> <<>>]
    /\ st_idx' = 0
    /\ st_chunk_ids' = <<>>
    /\ st_result' = [kind |-> IF st_pc' = "returned" THEN "ids" ELSE "none",
                     ids |-> <<>>]
    /\ st_replaced' = {}
    /\ UNCHANGED <<st_written, qdrantVars, notStore>>

\* Lines 32-71: the collection is created if get_collection does not find it
StoreEnsureOk ==
    /\ st_pc = "ensure"
    /\ q_exists' = TRUE
    /\ st_pc' = "loop"
    /\ UNCHANGED <<q_points, st_args, st_idx, st_chunk_ids, st_result,
                   st_written, st_replaced, st_call, notStore>>

\* Lines 32-71: create_collection or create_payload_index raises; the call is
\* outside the try block of store_chunks
StoreEnsureRaise ==
    /\ st_pc = "ensure"
    /\ st_pc' = "raised"
    /\ st_result' = [kind |-> "error", ids |-> <<>>]
    /\ st_args' = <<>>
    /\ UNCHANGED <<qdrantVars, st_idx, st_chunk_ids, st_written, st_replaced,
                   st_call, notStore>>

\* Lines 120-171: one batch is built and upserted; after the last one the
\* chunk ids are returned (the locals of the call end with it)
StoreBatchOk ==
    /\ st_pc = "loop"
    /\ q_exists
    /\ LET total_chunks == Len(st_args.chunks)
           batch_end == BatchEnd(st_idx, st_args.batch_size, total_chunks)
           batch_chunks == Slice(st_args.chunks, st_idx, batch_end)
           batch_dense == Slice(st_args.dense_embeddings, st_idx, batch_end)
           batch_sparse == Slice(st_args.sparse_embeddings, st_idx, batch_end)
           points_to_upsert ==
               [i \in 1..Len(batch_chunks) |->
                   PointStruct(batch_chunks[i], batch_dense[i], batch_sparse[i])]
           ids == [i \in 1..Len(batch_chunks) |-> PointId(batch_chunks[i])]
           data(i) == <<[vector |-> points_to_upsert[i].vector,
                         payload |-> points_to_upsert[i].payload]>>
           pos(c) == CHOOSE i \in 1..Len(batch_chunks) : batch_chunks[i].id = c
           sent == {batch_chunks[i].id : i \in 1..Len(batch_chunks)}
       IN /\ q_points' = Upsert(q_points, points_to_upsert)
          /\ st_call' = [st_call EXCEPT
                            !.upserts = Append(@, [ids |-> ids, ok |-> TRUE])]
          /\ LET chunk_ids == st_chunk_ids \o ids
                 batch_idx == st_idx + st_args.batch_size
             IN IF batch_idx >= total_chunks
                THEN /\ st_pc' = "returned"
                     /\ st_result' = [kind |-> "ids", ids |-> chunk_ids]
                     /\ st_args' = <<>>
                     /\ st_idx' = 0
                     /\ st_chunk_ids' = <<>>
                ELSE /\ st_idx' = batch_idx
                     /\ st_chunk_ids' = chunk_ids
                     /\ UNCHANGED <<st_pc, st_result, st_args>>
          /\ st_written' = [c \in ChunkIds |->
                               IF c \in sent THEN data(pos(c)) ELSE st_written[c]]
          /\ st_replaced' = st_replaced \cup
                 {c \in sent : /\ st_written[c] # NotWritten
                                /\ st_written[c] # data(pos(c))}
    /\ UNCHANGED <<q_exists, notStore>>

\* Lines 162-175: client.upsert raises; VectorStoreError leaves the loop
StoreBatchRaise ==
    /\ st_pc = "loop"
    /\ LET total_chunks == Len(st_args.chunks)
           batch_end == BatchEnd(st_idx, st_args.batch_size, total_chunks)
           batch_chunks == Slice(st_args.chunks, st_idx, batch_end)
           ids == [i \in 1..Len(batch_chunks) |-> PointId(batch_chunks[i])]
       IN st_call' = [st_call EXCEPT
                         !.upserts = Append(@, [ids |-> ids, ok |-> FALSE])]
    /\ st_pc' = "raised"
    /\ st_result' = [kind |-> "VectorStoreError", ids |-> <<>>]
    /\ st_args' = <<>>
    /\ st_idx' = 0
    /\ st_chunk_ids' = <<>>
    /\ q_points' = PointsAfterError(q_points, UpsertedIds(st_call.upserts))
    /\ UNCHANGED <<q_exists, st_written, st_replaced, notStore>>

NextStore ==
    \/ StoreCall
    \/ StoreEnsureOk
    \/ StoreEnsureRaise
    \/ StoreBatchOk
    \/ StoreBatchRaise

-----------------------------------------------------------------------------
(* RetrieverQdrant.retrieve_similar_chunks *)

MaxStoredChunks == 2
MaxTopK == 2

DocIds == {"d1", "d2"}
\* Fused scores and thresholds in tenths
Scores == {5, 7, 9}
Thresholds == {7, 9}

\* The "\n\n" that joins contents
SEP == <<"\n\n", 0>>

\* Chunk i of a page of document d as the ingestion stored it: chunk.execute
\* is called once per page, so the sequence index is the position on the page
StoredChunk(d, page, i) ==
    DocChunk(<<d, page, i>>, d, << <<d, page, i>> >>, i, page)

StoredPoint(d, page, i) ==
    PointStruct(StoredChunk(d, page, i),
                DenseVector(StoredChunk(d, page, i).content),
                SparseVector(StoredChunk(d, page, i).content))

\* The page counts of the stored documents: one of one or two pages, one of
\* one page
StoredPages(d) == IF d = "d1" THEN {1, 2} ELSE {1}

\* The collections ingestion leaves: chunks 0..n-1 of every page of every
\* document
Collections ==
    {UNION {{StoredPoint(d, page, i) : page \in 1..pages[d], i \in 0..(n[d] - 1)} :
                d \in DocIds} :
        n \in [DocIds -> 0..MaxStoredChunks],
        pages \in {f \in [DocIds -> {1, 2}] : \A d \in DocIds : f[d] \in StoredPages(d)}}

\* A retriever that expands every result
IsHighScoringAlways(score, score_threshold) == TRUE

\* Line 227: c.score >= score_threshold
IsHighScoring(score, score_threshold) == score >= score_threshold

\* A retriever that searches whatever collection_exists answers
CollectionMissingNever(answer) == FALSE

\* Line 60: if not await self.qdrant.collection_exists(collection_name)
CollectionMissing(answer) == answer = "no"

\* Lines 141-150 and 174: the points the document filter lets through
Filtered(points, document_ids) ==
    IF document_ids = {} THEN points
    ELSE {p \in points : p.payload.document_id \in document_ids}

\* query_points: at most top_k distinct points, highest fused score first
HitLists(points, top_k, document_ids) ==
    LET cands == Filtered(points, document_ids)
    IN UNION {
         {[k \in 1..n |-> [id |-> f[k].id, score |-> sc[k],
                           payload |-> f[k].payload]] :
             f \in {g \in [1..n -> cands] :
                       \A i, j \in 1..n : i # j => g[i] # g[j]},
             sc \in {t \in [1..n -> Scores] :
                        \A i \in 1..(n - 1) : t[i] >= t[i + 1]}} :
         n \in 0..Min(top_k, Cardinality(cands))}

\* Lines 180-200: result.get('score', 0.0), metadata.get('page_number', 0)
ConvertToChunks(results) ==
    [k \in 1..Len(results) |->
        LET result == results[k]
            payload == result.payload
        IN [chunk_id |-> result.id,
            document_id |-> payload.document_id,
            content |-> payload.content,
            score |-> IF "score" \in DOMAIN result THEN result.score ELSE 0,
            chunk_index |-> payload.chunk_index,
            page_number |-> IF "page_number" \in DOMAIN payload.metadata
                            THEN payload.metadata.page_number ELSE 0,
            token_count |-> payload.token_count,
            metadata |-> payload.metadata]]

\* client.scroll with limit=1: the lists it may return for the filter
Scroll(points, document_id, chunk_index) ==
    LET found == {p \in points : /\ p.payload.document_id = document_id
                                 /\ p.payload.chunk_index = chunk_index}
    IN IF found = {} THEN {<<>>}
       ELSE {<<[id |-> p.id, payload |-> p.payload]>> : p \in found}

\* "\n\n".join(neighbor_contents)
RECURSIVE Join(_)
Join(contents) ==
    IF contents = <<>> THEN <<>>
    ELSE IF Len(contents) = 1 THEN contents[1]
    ELSE contents[1] \o <<SEP>> \o Join(Tail(contents))

\* An expansion that puts the first neighbor in the place of the chunk
ExpandedAsNeighbor(chunk, neighbors) ==
    IF neighbors # <<>> THEN neighbors[1] ELSE chunk

\* Lines 245-248
Expanded(chunk, neighbors) ==
    IF neighbors # <<>>
    THEN [chunk EXCEPT !.content =
             chunk.content \o <<SEP>> \o
             Join([k \in 1..Len(neighbors) |-> neighbors[k].content])]
    ELSE chunk

\* Line 227: the positions of the high-scoring chunks, in list order
HighScoring(chunks, score_threshold) ==
    SelectSeq([k \in 1..Len(chunks) |-> k],
              LAMBDA k : IsHighScoring(chunks[k].score, score_threshold))

NoChunks == [kind |-> "none", chunks |-> <<>>, message |-> ""]

InitRetrieveQdrant ==
    \/ q_exists = FALSE /\ q_points = {}
    \/ q_exists = TRUE /\ q_points \in Collections

InitRetrieveVars ==
    /\ rt_pc = "embed_dense"
    /\ rt_args \in [top_k : 1..MaxTopK, document_ids : {{}, {"d1"}},
                    expand_context : BOOLEAN, score_threshold : Thresholds]
    /\ rt_exists_answer = "unasked"
    /\ rt_hits = <<>>
    /\ rt_chunks = <<>>
    /\ rt_i = 0
    /\ rt_result = NoChunks
    /\ rt_search_calls = 0
    /\ rt_scroll_calls = 0

IdleRetrieveVars ==
    /\ rt_pc = "idle"
    /\ rt_args = <<>>
    /\ rt_exists_answer = "unasked"
    /\ rt_hits = <<>>
    /\ rt_chunks = <<>>
    /\ rt_i = 0
    /\ rt_result = NoChunks
    /\ rt_search_calls = 0
    /\ rt_scroll_calls = 0

\* Lines 89-91: any exception leaves as VectorStoreError with its message
RtRaise(message) ==
    /\ rt_pc' = "raised"
    /\ rt_result' = [kind |-> "VectorStoreError", chunks |-> <<>>,
                     message |-> message]

RtReturn(chunks) ==
    /\ rt_pc' = "returned"
    /\ rt_result' = [kind |-> "chunks", chunks |-> chunks, message |-> ""]

\* Line 53
RtEmbedDenseOk ==
    /\ rt_pc = "embed_dense"
    /\ rt_pc' = "embed_sparse"
    /\ UNCHANGED <<rt_args, rt_exists_answer, rt_hits, rt_chunks, rt_i,
                   rt_result, rt_search_calls, rt_scroll_calls, qdrantVars,
                   notRetrieve>>

\* Lines 53, 99-101
RtEmbedDenseRaise ==
    /\ rt_pc = "embed_dense"
    /\ RtRaise("Dense embedding generation failed")
    /\ UNCHANGED <<rt_args, rt_exists_answer, rt_hits, rt_chunks, rt_i,
                   rt_search_calls, rt_scroll_calls, qdrantVars, notRetrieve>>

\* Line 54
RtEmbedSparseOk ==
    /\ rt_pc = "embed_sparse"
    /\ rt_pc' = "exists"
    /\ UNCHANGED <<rt_args, rt_exists_answer, rt_hits, rt_chunks, rt_i,
                   rt_result, rt_search_calls, rt_scroll_calls, qdrantVars,
                   notRetrieve>>

\* Lines 54, 111-124
RtEmbedSparseRaise ==
    /\ rt_pc = "embed_sparse"
    /\ RtRaise("Sparse embedding generation failed")
    /\ UNCHANGED <<rt_args, rt_exists_answer, rt_hits, rt_chunks, rt_i,
                   rt_search_calls, rt_scroll_calls, qdrantVars, notRetrieve>>

\* Lines 60-62 with the answer of collection_exists
RtAnswered(answer) ==
    /\ rt_exists_answer' = answer
    /\ IF CollectionMissing(answer)
       THEN RtReturn(<<>>)
       ELSE rt_pc' = "search" /\ UNCHANGED rt_result
    /\ UNCHANGED <<rt_args, rt_hits, rt_chunks, rt_i, rt_search_calls,
                   rt_scroll_calls, qdrantVars, notRetrieve>>

\* QdrantManager.collection_exists, lines 55-57
RtCollectionExists ==
    /\ rt_pc = "exists"
    /\ RtAnswered(IF q_exists THEN "yes" ELSE "no")

\* QdrantManager.collection_exists, lines 58-60: get_collections raises and
\* the answer is False
RtCollectionExistsSwallowed ==
    /\ rt_pc = "exists"
    /\ RtAnswered("no")

\* Lines 64-87: the search returns, the hits are converted; with expansion off,
\* no hit or no high-scoring hit the chunks are returned as they are
RtSearchOk ==
    /\ rt_pc = "search"
    /\ q_exists
    /\ rt_search_calls' = rt_search_calls + 1
    /\ \E search_results \in
           HitLists(q_points, rt_args.top_k, rt_args.document_ids) :
          LET retrieved_chunks == ConvertToChunks(search_results)
          IN /\ rt_hits' = search_results
             /\ rt_chunks' = retrieved_chunks
             /\ IF /\ rt_args.expand_context
                   /\ retrieved_chunks # <<>>
                   /\ HighScoring(retrieved_chunks, rt_args.score_threshold) # <<>>
                THEN rt_pc' = "expand" /\ rt_i' = 1 /\ UNCHANGED rt_result
                ELSE RtReturn(retrieved_chunks) /\ UNCHANGED rt_i
    /\ UNCHANGED <<rt_args, rt_exists_answer, rt_scroll_calls, qdrantVars,
                   notRetrieve>>

\* Lines 64-71: query_points raises (an absent collection always does)
RtSearchRaise ==
    /\ rt_pc = "search"
    /\ rt_search_calls' = rt_search_calls + 1
    /\ RtRaise("query_points failed")
    /\ UNCHANGED <<rt_args, rt_exists_answer, rt_hits, rt_chunks, rt_i,
                   rt_scroll_calls, qdrantVars, notRetrieve>>

\* Lines 236-257 and 280-348: the three lookups for one high-scoring chunk and
\* the expansion of its content; after the last chunk the list is returned
RtExpandOk ==
    /\ rt_pc = "expand"
    /\ LET high_scoring_chunks == HighScoring(rt_chunks, rt_args.score_threshold)
           k == high_scoring_chunks[rt_i]
           chunk == rt_chunks[k]
       IN \E next_1 \in Scroll(q_points, chunk.document_id, chunk.chunk_index + 1),
             next_2 \in Scroll(q_points, chunk.document_id, chunk.chunk_index + 2),
             next_3 \in Scroll(q_points, chunk.document_id, chunk.chunk_index + 3) :
             LET neighbors == ConvertToChunks(next_1) \o ConvertToChunks(next_2)
                                  \o ConvertToChunks(next_3)
                 chunks == [rt_chunks EXCEPT ![k] = Expanded(chunk, neighbors)]
             IN /\ rt_chunks' = chunks
                /\ IF rt_i = Len(high_scoring_chunks)
                   THEN RtReturn(chunks) /\ UNCHANGED rt_i
                   ELSE rt_i' = rt_i + 1 /\ UNCHANGED <<rt_pc, rt_result>>
    /\ rt_scroll_calls' = rt_scroll_calls + 3
    /\ UNCHANGED <<rt_args, rt_exists_answer, rt_hits, rt_search_calls,
                   qdrantVars, notRetrieve>>

\* Lines 283, 305, 327: the n-th lookup for a chunk raises
RtExpandRaise ==
    /\ rt_pc = "expand"
    /\ \E n \in 1..3 : rt_scroll_calls' = rt_scroll_calls + n
    /\ RtRaise("scroll failed")
    /\ UNCHANGED <<rt_args, rt_exists_answer, rt_hits, rt_chunks, rt_i,
                   rt_search_calls, qdrantVars, notRetrieve>>

NextRetrieve ==
    \/ RtEmbedDenseOk
    \/ RtEmbedDenseRaise
    \/ RtEmbedSparseOk
    \/ RtEmbedSparseRaise
    \/ RtCollectionExists
    \/ RtCollectionExistsSwallowed
    \/ RtSearchOk
    \/ RtSearchRaise
    \/ RtExpandOk
    \/ RtExpandRaise

-----------------------------------------------------------------------------
(* ChunkDocument.execute, block by block *)

MaxBlocks == 2
MaxBlockParts == 2
fallback_chars == 100

\* len(content) of a block: blank, within the fallback's cut, beyond it
BlockChars == {0, 80, 120}

\* A block of the page: a prose chunk, a code block or a table of the
\* MarkdownDocument, with the start_index Chonkie gave it, the length of its
\* content and the number of pieces its chunker cuts it into
BlockKinds == {"text", "code", "table"}
Block(kind, start_index, chars, parts) ==
    [kind |-> kind, start_index |-> start_index, chars |-> chars,
     parts |-> parts]

\* What a block may be: prose is blank or not, a blank block is cut into
\* nothing
BlockShapes ==
    {sh \in [kind : BlockKinds, chars : BlockChars, parts : 0..MaxBlockParts] :
        /\ sh.kind = "text" => sh.chars < 120
        /\ sh.parts = 0 <=> sh.chars = 0}

\* The pages: up to MaxBlocks blocks, start_index growing down the page
Pages ==
    UNION {{[i \in 1..n |-> Block(sh[i].kind, i, sh[i].chars, sh[i].parts)] :
               sh \in [1..n -> BlockShapes]} :
           n \in 0..MaxBlocks}

\* chonkie_doc.chunks, chonkie_doc.code, chonkie_doc.tables
BlocksOf(page, kind) == SelectSeq(page, LAMBDA block : block.kind = kind)

StageKind(pc) == IF pc = "text" THEN "text"
                 ELSE IF pc = "code" THEN "code" ELSE "table"

\* The loop that follows the loop pc, skipping the empty block lists
RECURSIVE LoopFrom(_, _)
LoopFrom(page, pc) ==
    IF pc = "sort" THEN "sort"
    ELSE IF BlocksOf(page, StageKind(pc)) # <<>> THEN pc
    ELSE LoopFrom(page, IF pc = "text" THEN "code"
                        ELSE IF pc = "code" THEN "tables" ELSE "sort")

LoopAfter(pc) == IF pc = "text" THEN "code"
                 ELSE IF pc = "code" THEN "tables" ELSE "sort"

\* Lines 93-99: Chonkie's blocks carry start_index
GetPosition(block) == block.start_index

\* What a summary holds of the block: raw_chars characters of its content
NoSummary == [kind |-> "none", raw_chars |-> 0]

\* llm_groq_service.py lines 16-43 and 49-75: the completion's text, or the
\* whole content when the request raised
Summarize(api, chars) ==
    IF api = "ok" THEN [raised |-> FALSE,
                        summary |-> [kind |-> "llm", raw_chars |-> 0]]
    ELSE [raised |-> FALSE, summary |-> [kind |-> "raw", raw_chars |-> chars]]

\* Lines 140 and 183: content_to_summarize[:100]
TruncatedSummary(chars) ==
    [kind |-> "truncated", raw_chars |-> Min(chars, fallback_chars)]

\* Lines 135-140 and 178-183: the try around the service call
SummaryOf(call, chars) ==
    IF call.raised THEN TruncatedSummary(chars) ELSE call.summary

\* Lines 115-121, 153-164, 194-204: one DocumentChunk per piece of the chunker,
\* in the chunker's order
BlockChunks(block, summary) ==
    [k \in 1..block.parts |->
        [document_id |-> "d1",
         content |-> [kind |-> block.kind, block |-> block.start_index,
                      part |-> k, summary |-> summary],
         chunk_index |-> 0, page_number |-> 0, token_count |-> 1,
         metadata |-> [type |-> IF block.kind = "text" THEN "text"
                                ELSE IF block.kind = "code"
                                     THEN "code_with_summary"
                                     ELSE "table_with_summary"]]]

\* positioned_chunks.sort(key=lambda x: x[0]): stable, by position
RECURSIVE InsertByPosition(_, _)
InsertByPosition(sorted, e) ==
    IF sorted = <<>> THEN <<e>>
    ELSE IF sorted[Len(sorted)][1] <= e[1] THEN Append(sorted, e)
    ELSE Append(InsertByPosition(SubSeq(sorted, 1, Len(sorted) - 1), e),
                sorted[Len(sorted)])

RECURSIVE SortedFrom(_, _, _)
SortedFrom(s, pos, acc) ==
    IF pos > Len(s) THEN acc
    ELSE SortedFrom(s, pos + 1, InsertByPosition(acc, s[pos]))

\* An execute that keeps the chunks in the order the three loops made them
SortByPositionSkipped(positioned_chunks) == positioned_chunks

\* Line 73
SortByPosition(positioned_chunks) == SortedFrom(positioned_chunks, 1, <<>>)

NoChunkResult == [kind |-> "none", chunks |-> <<>>]

InitChunkVars ==
    /\ ck_page \in Pages
    /\ ck_pc = LoopFrom(ck_page, "text")
    /\ ck_i = 1
    /\ ck_positioned = <<>>
    /\ ck_failed = {}
    /\ ck_result = NoChunkResult

IdleChunkVars ==
    /\ ck_page = <<>>
    /\ ck_pc = "idle"
    /\ ck_i = 0
    /\ ck_positioned = <<>>
    /\ ck_failed = {}
    /\ ck_result = NoChunkResult

\* The block the current loop stands at
CurrentBlock == BlocksOf(ck_page, StageKind(ck_pc))[ck_i]

\* The loop moves to its next block, or the next loop starts
ChunkStep ==
    IF ck_i < Len(BlocksOf(ck_page, StageKind(ck_pc)))
    THEN ck_i' = ck_i + 1 /\ UNCHANGED ck_pc
    ELSE ck_i' = 1 /\ ck_pc' = LoopFrom(ck_page, LoopAfter(ck_pc))

Positioned(block, chunks) ==
    [k \in 1..Len(chunks) |-> <<GetPosition(block), chunks[k]>>]

\* Lines 55-58 and 105-122: a prose block is cut, a blank one gives nothing
ChunkTextBlock ==
    /\ ck_pc = "text"
    /\ ck_positioned' = ck_positioned
           \o Positioned(CurrentBlock, BlockChunks(CurrentBlock, NoSummary))
    /\ ChunkStep
    /\ UNCHANGED <<ck_page, ck_failed, ck_result, notChunk>>

\* Lines 124-165 and 167-205: a code block or a table is summarized and cut
\* with its summary; a blank one is not summarized
ChunkSummarizedBlock ==
    /\ \E api \in {"ok", "error"} :
          /\ CurrentBlock.chars = 0 => api = "ok"
          /\ LET chars == CurrentBlock.chars
                 summary == SummaryOf(Summarize(api, chars), chars)
             IN ck_positioned' = ck_positioned
                    \o Positioned(CurrentBlock, BlockChunks(CurrentBlock, summary))
          /\ ck_failed' = IF api = "error"
                          THEN ck_failed \cup {CurrentBlock.start_index}
                          ELSE ck_failed
    /\ ChunkStep
    /\ UNCHANGED <<ck_page, ck_result, notChunk>>

\* Lines 61-64
ChunkCodeBlock ==
    /\ ck_pc = "code"
    /\ ChunkSummarizedBlock

\* Lines 67-70
ChunkTableBlock ==
    /\ ck_pc = "tables"
    /\ ChunkSummarizedBlock

\* Lines 89-91: the chunker of a block raises; execute raises ChunkingError
ChunkBlockRaise ==
    /\ ck_pc \in {"text", "code", "tables"}
    /\ CurrentBlock.chars > 0
    /\ ck_pc' = "raised"
    /\ ck_result' = [kind |-> "ChunkingError", chunks |-> <<>>]
    /\ UNCHANGED <<ck_page, ck_i, ck_positioned, ck_failed, notChunk>>

\* Lines 73-87: the chunks are sorted by position, get the page number and are
\* numbered from 0
ChunkSort ==
    /\ ck_pc = "sort"
    /\ LET sorted == SortByPosition(ck_positioned)
       IN /\ ck_positioned' = sorted
          /\ ck_result' =
                [kind |-> "chunks",
                 chunks |-> [i \in 1..Len(sorted) |->
                               [sorted[i][2] EXCEPT !.page_number = 1,
                                                    !.chunk_index = i - 1]]]
    /\ ck_pc' = "returned"
    /\ UNCHANGED <<ck_page, ck_i, ck_failed, notChunk>>

NextChunk ==
    \/ ChunkTextBlock
    \/ ChunkCodeBlock
    \/ ChunkTableBlock
    \/ ChunkBlockRaise
    \/ ChunkSort

-----------------------------------------------------------------------------
(* EmbeddingRepositoryQdrant._ensure_collection_exists *)

MaxEnsureCalls == 2

\* len(dense_embeddings[0]) of the callers
VectorSizes == {384, 768}

\* Lines 55-69: the payload indexes, in the order they are created
IndexFields == <<"document_id", "chunk_index", "page_number">>

NoSchema == [vectors |-> {}, indexes |-> {}]

\* Lines 40-51: the named vectors of a new collection
CreatedSchema(vector_size) ==
    [vectors |-> {[name |-> "text-dense", size |-> vector_size,
                   distance |-> "Cosine"],
                  [name |-> "text-sparse", size |-> 0, distance |-> "none"]},
     indexes |-> {}]

\* Lines 55-69: a payload index is added
WithIndex(schema, field_name, field_schema) ==
    [schema EXCEPT !.indexes = @ \cup {[field_name |-> field_name,
                                        field_schema |-> field_schema]}]

FieldSchema(field_name) ==
    IF field_name = "document_id" THEN "keyword" ELSE "integer"

\* The collection a call that created it leaves
FullSchema(vector_size) ==
    WithIndex(WithIndex(WithIndex(CreatedSchema(vector_size),
                                  "document_id", "keyword"),
                        "chunk_index", "integer"),
              "page_number", "integer")

\* An ensure that creates the collection anew when it finds it
SchemaWhenFoundRecreated(schema, vector_size) == CreatedSchema(vector_size)

\* Lines 35-36: the collection is found and left as it is
SchemaWhenFound(schema, vector_size) == schema

Collection == [exists |-> q_exists, schema |-> q_schema, points |-> q_points]

NoCollection == [exists |-> FALSE, schema |-> NoSchema, points |-> {}]

\* No collection, or one that an earlier call created, empty or with a point
InitEnsureVars ==
    /\ \/ /\ q_exists = FALSE
          /\ q_schema = NoSchema
          /\ q_points = {}
       \/ /\ q_exists = TRUE
          /\ q_schema \in {FullSchema(size) : size \in VectorSizes}
          /\ q_points \in {{}, {StoredPoint("d1", 1, 0)}}
    /\ en_pc = "ready"
    /\ en_size = 0
    /\ en_i = 0
    /\ en_calls = 0
    /\ en_before = NoCollection
    /\ en_created = FALSE

IdleEnsureVars ==
    /\ q_schema = NoSchema
    /\ en_pc = "idle"
    /\ en_size = 0
    /\ en_i = 0
    /\ en_calls = 0
    /\ en_before = NoCollection
    /\ en_created = FALSE

\* Line 32: a call, the first or one after a call that returned or raised
EnsureCall ==
    /\ en_pc \in {"ready", "returned", "raised"}
    /\ en_calls < MaxEnsureCalls
    /\ en_calls' = en_calls + 1
    /\ en_size' \in VectorSizes
    /\ en_pc' = "get"
    /\ en_i' = 0
    /\ en_before' = Collection
    /\ en_created' = FALSE
    /\ UNCHANGED <<q_schema, qdrantVars, notEnsure>>

\* Lines 35-36: get_collection finds the collection
EnsureFound ==
    /\ en_pc = "get"
    /\ q_exists
    /\ q_schema' = SchemaWhenFound(q_schema, en_size)
    /\ en_pc' = "returned"
    /\ UNCHANGED <<en_size, en_i, en_calls, en_before, en_created, qdrantVars,
                   notEnsure>>

\* Lines 37-38: get_collection raises, because the collection is absent or
\* for any other reason; every Exception is taken as absence
EnsureNotFound ==
    /\ en_pc = "get"
    /\ en_pc' = "create"
    /\ UNCHANGED <<q_schema, en_size, en_i, en_calls, en_before, en_created,
                   qdrantVars, notEnsure>>

\* Lines 40-51: create_collection creates the absent collection
EnsureCreateOk ==
    /\ en_pc = "create"
    /\ ~q_exists
    /\ q_exists' = TRUE
    /\ q_schema' = CreatedSchema(en_size)
    /\ en_created' = TRUE
    /\ en_pc' = "index"
    /\ UNCHANGED <<q_points, en_size, en_i, en_calls, en_before, notEnsure>>

\* Lines 40-51: create_collection raises, as it does for a collection that
\* exists; the exception leaves the call
EnsureCreateRaise ==
    /\ en_pc = "create"
    /\ en_pc' = "raised"
    /\ UNCHANGED <<q_schema, en_size, en_i, en_calls, en_before, en_created,
                   qdrantVars, notEnsure>>

\* Lines 55-71: the next payload index is created; after the third the call
\* returns
EnsureIndexOk ==
    /\ en_pc = "index"
    /\ q_schema' = WithIndex(q_schema, IndexFields[en_i + 1],
                             FieldSchema(IndexFields[en_i + 1]))
    /\ en_i' = en_i + 1
    /\ en_pc' = IF en_i' = Len(IndexFields) THEN "returned" ELSE "index"
    /\ UNCHANGED <<en_size, en_calls, en_before, en_created, qdrantVars,
                   notEnsure>>

\* Lines 55-69: create_payload_index raises; the collection stays as far as it
\* was made
EnsureIndexRaise ==
    /\ en_pc = "index"
    /\ en_pc' = "raised"
    /\ UNCHANGED <<q_schema, en_size, en_i, en_calls, en_before, en_created,
                   qdrantVars, notEnsure>>

NextEnsure ==
    \/ EnsureCall
    \/ EnsureFound
    \/ EnsureNotFound
    \/ EnsureCreateOk
    \/ EnsureCreateRaise
    \/ EnsureIndexOk
    \/ EnsureIndexRaise

-----------------------------------------------------------------------------
(* The upsert step of the pipeline: UpsertDocument.execute over store_chunks *)

\* The pipeline stands before line 160 with the chunks of a one-page document
\* and their embeddings collected; the collection is absent or empty
InitIndexVars ==
    /\ pages_per_batch = 1
    /\ max_parallel_pages = 1
    /\ pl_pc = "upsert"
    /\ \E cs \in ChunkLists \ {<<>>} :
          /\ collected = [chunks |-> cs,
                          dense |-> [i \in 1..Len(cs) |-> DenseVector(cs[i].content)],
                          sparse |-> [i \in 1..Len(cs) |-> SparseVector(cs[i].content)],
                          failed_batches |-> 0]
          /\ page_documents = << <<1, Len(cs)>> >>
    /\ doc = [NewDoc EXCEPT !.total_pages = 1]
    /\ db_row = [NewDoc EXCEPT !.total_pages = 1]
    /\ batch = <<>>
    /\ semaphore = 1
    /\ upsert_calls = <<>>
    /\ faults = {}
    /\ out_of_order = FALSE
    /\ q_exists \in BOOLEAN
    /\ q_points = {}
    /\ InitStoreVars

\* upload_document.py lines 160-166, upsert_document.py lines 24-34,
\* store_chunks lines 96-116: the collected lists are passed on, batch_size is
\* settings.embedding_batch_size
IdxCall ==
    /\ pl_pc = "upsert"
    /\ st_pc = "ready"
    /\ pl_pc' = "store_chunks"
    /\ upsert_calls' = Append(upsert_calls, UpsertArgs)
    /\ \E batch_size \in 1..MaxStoreBatch :
          /\ st_args' = [chunks |-> collected.chunks,
                         dense_embeddings |-> collected.dense,
                         sparse_embeddings |-> collected.sparse,
                         batch_size |-> batch_size]
          /\ st_call' = [ids |-> [i \in 1..Len(collected.chunks) |->
                                     collected.chunks[i].id],
                         batch_size |-> batch_size, upserts |-> <<>>]
    /\ st_pc' = "ensure"
    /\ UNCHANGED <<pages_per_batch, max_parallel_pages, doc, db_row,
                   page_documents, batch, semaphore, collected, faults,
                   out_of_order, st_idx, st_chunk_ids, st_result, st_written,
                   st_replaced, qdrantVars, retrieveVars, extractVars,
                   embedVars, uploadVars, chunkVars, ensureVars>>

\* upsert_document.py line 36, upload_document.py lines 160-169: the number of
\* ids is the indexed count
IdxReturned ==
    /\ pl_pc = "store_chunks"
    /\ st_pc = "returned"
    /\ doc' = [doc EXCEPT !.chunks_count = Len(st_result.ids)]
    /\ pl_pc' = "final_update"
    /\ UNCHANGED <<pages_per_batch, max_parallel_pages, db_row, page_documents,
                   batch, semaphore, collected, upsert_calls, faults,
                   out_of_order, qdrantVars, notIngest>>

\* upsert_document.py lines 38-40, upload_document.py line 178: any exception
\* of store_chunks reaches the except branch of the pipeline
IdxRaised ==
    /\ pl_pc = "store_chunks"
    /\ st_pc = "raised"
    /\ faults' = faults \cup {"upsert"}
    /\ pl_pc' = "handler"
    /\ UNCHANGED <<pages_per_batch, max_parallel_pages, doc, db_row,
                   page_documents, batch, semaphore, collected, upsert_calls,
                   out_of_order, qdrantVars, notIngest>>

NextIndex ==
    \/ IdxCall
    \/ StoreEnsureOk
    \/ StoreEnsureRaise
    \/ StoreBatchOk
    \/ StoreBatchRaise
    \/ IdxReturned
    \/ IdxRaised
    \/ PipeFinalUpdateOk
    \/ PipeFinalUpdateRaise
    \/ PipeHandlerOk
    \/ PipeHandlerRaise

-----------------------------------------------------------------------------
(* Specifications *)

IdleQdrantStore ==
    /\ InitQdrantVars /\ IdleStoreVars /\ IdleRetrieveVars /\ IdleChunkVars
    /\ IdleEnsureVars

InitExtract ==
    InitExtractVars /\ IdleEmbedVars /\ IdleIngestVars /\ IdleUploadVars
    /\ IdleQdrantStore
InitEmbed ==
    InitEmbedVars /\ IdleExtractVars /\ IdleIngestVars /\ IdleUploadVars
    /\ IdleQdrantStore
InitIngest ==
    InitIngestVars /\ IdleExtractVars /\ IdleEmbedVars /\ IdleUploadVars
    /\ IdleQdrantStore
InitUpload ==
    InitUploadVars /\ IdleExtractVars /\ IdleEmbedVars /\ IdleIngestVars
    /\ IdleQdrantStore
InitStore ==
    InitStoreVars /\ InitQdrantVars /\ IdleExtractVars /\ IdleEmbedVars
    /\ IdleIngestVars /\ IdleUploadVars /\ IdleRetrieveVars /\ IdleChunkVars
    /\ IdleEnsureVars

InitIndex ==
    /\ InitIndexVars
    /\ IdleExtractVars /\ IdleEmbedVars /\ IdleUploadVars /\ IdleRetrieveVars
    /\ IdleChunkVars /\ IdleEnsureVars

InitChunk ==
    InitChunkVars /\ IdleExtractVars /\ IdleEmbedVars /\ IdleIngestVars
    /\ IdleUploadVars /\ InitQdrantVars /\ IdleStoreVars /\ IdleRetrieveVars
    /\ IdleEnsureVars

InitEnsure ==
    InitEnsureVars /\ IdleExtractVars /\ IdleEmbedVars /\ IdleIngestVars
    /\ IdleUploadVars /\ IdleStoreVars /\ IdleRetrieveVars /\ IdleChunkVars

InitRetrieve ==
    InitRetrieveVars /\ InitRetrieveQdrant /\ IdleExtractVars /\ IdleEmbedVars
    /\ IdleIngestVars /\ IdleUploadVars /\ IdleStoreVars /\ IdleChunkVars
    /\ IdleEnsureVars

SpecExtract == InitExtract /\ [][NextExtract]_vars
SpecEmbed == InitEmbed /\ [][NextEmbed]_vars
SpecIngest == InitIngest /\ [][NextIngest]_vars
SpecUpload == InitUpload /\ [][NextUpload]_vars
SpecStore == InitStore /\ [][NextStore]_vars
SpecIndex == InitIndex /\ [][NextIndex]_vars
SpecChunk == InitChunk /\ [][NextChunk]_vars
SpecEnsure == InitEnsure /\ [][NextEnsure]_vars
SpecRetrieve == InitRetrieve /\ [][NextRetrieve]_vars

\* The event loop runs every ready coroutine and every awaited call returns or
\* raises: a pipeline step that can be taken is eventually taken
FairSpecIngest == SpecIngest /\ WF_vars(NextIngest)

-----------------------------------------------------------------------------
(* Claims *)

\* C1: for any list of N chunk texts, any batch size >= 1 and any order in
\* which a backend lists the items of a response, execute returns a dense and
\* a sparse list of length N whose i-th entries are the embeddings the
\* backends produced for the i-th input text.
C1_OrderPreserved ==
    emb_pc = "returned" =>
        /\ Len(emb_result[1]) = Len(texts_to_embed)
        /\ Len(emb_result[2]) = Len(texts_to_embed)
        /\ \A i \in 1..Len(texts_to_embed) :
            /\ emb_result[1][i] = BackendEmbedding("dense", texts_to_embed[i])
            /\ emb_result[2][i] = BackendEmbedding("sparse", texts_to_embed[i])

\* Several request batches, distinct texts, and a returned pair
C1_Witness ==
    /\ emb_pc = "returned"
    /\ Len(texts_to_embed) = MaxTexts
    /\ BATCH_SIZE = 2
    /\ texts_to_embed[1] # texts_to_embed[2]

\* C2: the chunks handed to the vector store carry sequence indices that are
\* exactly 0..N-1 (N = total chunks of the document), no gaps, no repeats.
C2_SequenceIndicesContiguous ==
    \A c \in 1..Len(upsert_calls) :
        LET chunks == upsert_calls[c].chunks
        IN /\ {chunks[i].chunk_index : i \in 1..Len(chunks)} = 0..(Len(chunks) - 1)
           /\ \A i, j \in 1..Len(chunks) :
                i # j => chunks[i].chunk_index # chunks[j].chunk_index

\* C4: if a Document with the same content hash exists for the user, execute
\* raises a duplicate-content error that references an existing document with
\* that hash, and creates no partial state: no blob, no row, no background task.
C4_DuplicateRejected ==
    \A r \in DOMAIN up_pc :
        up_seen[r] = "present" =>
            /\ up_pc[r] = "raised"
            /\ up_result[r].kind = "duplicate"
            /\ \E d \in db_docs : /\ d.id = up_result[r].ref
                                  /\ d.id # r
                                  /\ d.user_id = up_req[r].user_id
                                  /\ d.file_hash = up_req[r].file_hash
            /\ r \notin blobs
            /\ r \notin pipelines
            /\ \A d \in db_docs : d.id # r

\* A second upload of the same content was rejected after the first returned
C4_Witness ==
    /\ up_pc[1] = "returned"
    /\ up_seen[2] = "present"
    /\ up_result[2] = [kind |-> "duplicate", ref |-> 1]

\* C5: in every interleaving of concurrent uploads of the same content by the
\* same user, at most one Document row with that hash is saved for the user.
C5_HashUniquePerUser ==
    \A d1, d2 \in db_docs :
        (d1.user_id = d2.user_id /\ d1.file_hash = d2.file_hash) => d1 = d2

\* A stored chunk of the hit's document with one of the next three indices
HasNextChunk(hit) ==
    \E p \in q_points :
        /\ p.payload.document_id = hit.payload.document_id
        /\ p.payload.chunk_index \in
               (hit.payload.chunk_index + 1)..(hit.payload.chunk_index + 3)

\* A retrieval with context expansion returned its list
ExpansionReturned ==
    /\ rt_pc = "returned"
    /\ rt_exists_answer = "yes"
    /\ rt_args.expand_context

\* C6 as stated: with context expansion enabled, exactly the results whose
\* score is at least the threshold have their content lengthened, and every
\* result below the threshold is returned with unmodified content.
C6_ExactlyHighScoresLengthened ==
    ExpansionReturned =>
        \A k \in 1..Len(rt_hits) :
            IF rt_hits[k].score >= rt_args.score_threshold
            THEN Len(rt_result.chunks[k].content) >
                     Len(rt_hits[k].payload.content)
            ELSE rt_result.chunks[k].content = rt_hits[k].payload.content

\* C6 amended: with context expansion enabled, exactly the results whose score
\* is at least the threshold and whose document has a stored chunk at one of
\* the next three sequence indices have their content lengthened; every other
\* result, below the threshold or without such a chunk, is returned unmodified.
C6_HighScoresWithNeighborsLengthened ==
    ExpansionReturned =>
        /\ Len(rt_result.chunks) = Len(rt_hits)
        /\ \A k \in 1..Len(rt_hits) :
              IF /\ rt_hits[k].score >= rt_args.score_threshold
                 /\ HasNextChunk(rt_hits[k])
              THEN Len(rt_result.chunks[k].content) >
                       Len(rt_hits[k].payload.content)
              ELSE rt_result.chunks[k].content = rt_hits[k].payload.content

\* Of two hits that both have a next chunk, the one at the threshold was
\* lengthened and the one below it was not
C6_Witness ==
    /\ ExpansionReturned
    /\ Len(rt_hits) = 2
    /\ rt_hits[1].score >= rt_args.score_threshold
    /\ rt_hits[2].score < rt_args.score_threshold
    /\ HasNextChunk(rt_hits[1])
    /\ HasNextChunk(rt_hits[2])
    /\ Len(rt_result.chunks[1].content) > Len(rt_hits[1].payload.content)
    /\ rt_result.chunks[2].content = rt_hits[2].payload.content

C8_OnePointPerChunkId ==
    /\ \A c \in DOMAIN st_written :
          st_written[c] # NotWritten =>
              /\ Cardinality({p \in q_points : p.id = c}) = 1
              /\ \A p \in q_points :
                    p.id = c => /\ p.vector = st_written[c][1].vector
                                /\ p.payload = st_written[c][1].payload
    /\ Cardinality(q_points) =
           Cardinality({c \in DOMAIN st_written : st_written[c] # NotWritten})

\* Both chunk ids are stored and chunk 1 was stored again with other vectors
C8_Witness ==
    /\ st_pc = "returned"
    /\ 1 \in st_replaced
    /\ Cardinality(q_points) = 2
    /\ \E p \in q_points : p.id = 1 /\ p.vector.text_dense = DenseVector(<<"b">>)

\* C11: if saving the Document record fails after the blob upload succeeded,
\* the blob is deleted as compensation (it stays only when that delete itself
\* fails), the caller receives the save error in both cases, and no row is
\* kept and no background processing is started.
C11_SaveFailureCompensated ==
    \A r \in DOMAIN up_pc :
        (up_atomic_error[r] = "save" /\ up_pc[r] = "raised") =>
            /\ up_cleanup[r] \in {"deleted", "delete_file"}
            /\ up_cleanup[r] = "deleted" => r \notin blobs
            /\ up_result[r].kind = "save"
            /\ r \notin pipelines
            /\ \A d \in db_docs : d.id # r

\* A save failed, the compensating delete failed too, the save error came back
C11_Witness ==
    /\ up_pc[1] = "raised"
    /\ up_atomic_error[1] = "save"
    /\ up_cleanup[1] = "delete_file"
    /\ up_result[1].kind = "save"
    /\ 1 \in blobs

\* The batches that are inside chunking or embedding
InsideBatches == {b \in 1..Len(batch) : batch[b].pc \in {"chunking", "embedding"}}

\* C12: at every moment of an ingestion the number of batches inside chunking
\* or embedding is at most max_parallel_pages, the capacity of the semaphore.
C12_ParallelismBounded ==
    /\ Cardinality(InsideBatches) <= max_parallel_pages
    /\ pl_pc = "gather" => semaphore = max_parallel_pages - Cardinality(InsideBatches)

\* Two batches are inside, which is the capacity, and a third one waits
C12_Witness ==
    /\ pl_pc = "gather"
    /\ max_parallel_pages = 2
    /\ Len(batch) = 3
    /\ Cardinality(InsideBatches) = 2
    /\ \E b \in 1..Len(batch) : batch[b].pc = "waiting"

\* C13: a failed backend request is retried, and an error reaches the caller
\* only after the configured maximum number of attempts has been made.
C13_ErrorOnlyAfterMaxAttempts ==
    \A b \in Backends :
        task[b].pc = "raised" => task[b].attempt + 1 = max_retries

\* C20: _retry_request makes at most max_retries attempts; after the n-th
\* failed attempt, n < max_retries, it waits retry_delay * 2^(n-1) before the
\* next attempt, and it does not wait after the last failed attempt.
C20_BackoffSchedule ==
    \A b \in Backends :
        /\ task[b].attempt + 1 <= max_retries
        /\ Len(task[b].slept) = task[b].attempt
        /\ \A n \in 1..Len(task[b].slept) :
              task[b].slept[n] = retry_delay * Pow2(n - 1)

\* The last attempt of a request failed after two waits, of 1 and of 2 delays
C20_Witness ==
    /\ task["dense"].pc = "raised"
    /\ task["dense"].attempt + 1 = max_retries
    /\ task["dense"].slept = <<retry_delay, 2 * retry_delay>>

\* C14: a chunk is never partially indexed: the chunk, dense and sparse lists
\* passed to the upsert have equal length and position i of each refers to the
\* same chunk, and every point written carries the dense and the sparse vector
\* computed for the chunk whose id and payload it has.
C14_NeverPartiallyIndexed ==
    /\ \A c \in 1..Len(upsert_calls) :
          LET args == upsert_calls[c]
          IN /\ Len(args.dense) = Len(args.chunks)
             /\ Len(args.sparse) = Len(args.chunks)
             /\ \A i \in 1..Len(args.chunks) :
                   /\ args.dense[i] = DenseVector(args.chunks[i].content)
                   /\ args.sparse[i] = SparseVector(args.chunks[i].content)
    /\ pl_pc # "idle" =>
          \A p \in q_points :
              \E i \in 1..Len(collected.chunks) :
                  LET chunk == collected.chunks[i]
                  IN /\ p.id = chunk.id
                     /\ p.payload = Payload(chunk)
                     /\ p.vector =
                            [text_dense |-> DenseVector(chunk.content),
                             text_sparse |-> SparseVector(chunk.content)]

\* The chunks of two batches were upserted and both points are stored
C14_Witness ==
    /\ pl_pc = "done"
    /\ Len(upsert_calls) = 1
    /\ Len(upsert_calls[1].chunks) = 2
    /\ Len(batch) = 2
    /\ Cardinality(q_points) = 2
    /\ db_row.status = "completed"

\* C15: retrieve_similar_chunks returns a list only when query embedding,
\* collection lookup, search and every neighbor lookup succeeded (a lookup that
\* succeeded answers what the store holds); a failure of a step is raised as
\* an error with the underlying message and no list.
C15_ListOnlyWhenAllStepsSucceeded ==
    /\ rt_pc = "returned" =>
          /\ rt_result.kind = "chunks"
          /\ rt_exists_answer = (IF q_exists THEN "yes" ELSE "no")
    /\ rt_pc = "raised" =>
          /\ rt_result.kind = "VectorStoreError"
          /\ rt_result.message # ""
          /\ rt_result.chunks = <<>>

RaisedBatches == {b \in 1..Len(batch) : batch[b].raised}

RECURSIVE ChunksOfOtherBatches(_)
ChunksOfOtherBatches(b) ==
    IF b = 0 THEN 0
    ELSE ChunksOfOtherBatches(b - 1)
         + (IF batch[b].raised THEN 0 ELSE Len(ChunkBatch(batch[b].pages)))

TerminalStatus == {"completed", "failed"}

C17_FailedBatchCount ==
    pl_pc \in {"upsert", "final_update"} =>
        collected.failed_batches =
            Cardinality({b \in 1..Len(batch) : batch[b].raised})

\* C18: the status becomes failed only when extraction, the upsert or a
\* metadata update of the pipeline raised; exceptions inside page batches never
\* give status failed: when every batch fails and nothing else does, the
\* document is completed with chunk count 0 and the upsert is not called.
C18_FailedOnlyOnDocumentLevelErrors ==
    /\ (doc.status = "failed" \/ db_row.status = "failed") =>
          faults \cap {"extract", "update_pages", "upsert", "final_update"} # {}
    /\ (/\ pl_pc = "done"
        /\ faults = {}
        /\ \A b \in 1..Len(batch) : batch[b].raised) =>
          /\ db_row.status = "completed"
          /\ db_row.chunks_count = 0
          /\ upsert_calls = <<>>

\* Both batches of a document raised and the document is completed, empty
C18_Witness ==
    /\ pl_pc = "done"
    /\ faults = {}
    /\ Len(batch) = 2
    /\ \A b \in 1..Len(batch) : batch[b].raised
    /\ db_row.status = "completed"
    /\ db_row.chunks_count = 0
    /\ upsert_calls = <<>>

\* The chunks of the first n batches in page-batch order, none for a batch
\* that raised
RECURSIVE ChunksInBatchOrder(_)
ChunksInBatchOrder(n) ==
    IF n = 0 THEN <<>>
    ELSE ChunksInBatchOrder(n - 1)
         \o (IF batch[n].raised THEN <<>> ELSE ChunkBatch(batch[n].pages))

\* C19: the aggregated chunk list and its two embedding lists are the
\* concatenation of the batch results in page-batch order, whatever the order
\* in which the concurrently running batches completed.
C19_AggregationInBatchOrder ==
    pl_pc \in {"upsert", "final_update"} =>
        /\ collected.chunks = ChunksInBatchOrder(Len(batch))
        /\ collected.dense = EmbedAll("dense", collected.chunks)
        /\ collected.sparse = EmbedAll("sparse", collected.chunks)
        /\ \A i, j \in 1..Len(collected.chunks) :
              i < j => collected.chunks[i].page_number
                           < collected.chunks[j].page_number + 1

\* A later batch completed first and the chunks of two batches were collected
C19_Witness ==
    /\ pl_pc = "upsert"
    /\ out_of_order
    /\ Len(collected.chunks) >= 2
    /\ collected.chunks[1].page_number < collected.chunks[2].page_number

\* The stored points of the hit's document at the next three sequence indices
NextChunks(hit) ==
    {p \in q_points :
        /\ p.payload.document_id = hit.payload.document_id
        /\ p.payload.chunk_index \in
               (hit.payload.chunk_index + 1)..(hit.payload.chunk_index + 3)}

\* The listings of a set of points in increasing sequence index order
InIndexOrder(points) ==
    {f \in [1..Cardinality(points) -> points] :
        /\ \A i, j \in 1..Cardinality(points) : i # j => f[i] # f[j]
        /\ \A i, j \in 1..Cardinality(points) :
              i < j => f[i].payload.chunk_index <= f[j].payload.chunk_index}

\* Every content of the list, each preceded by the separator
RECURSIVE EachAfterBlankLine(_)
EachAfterBlankLine(contents) ==
    IF contents = <<>> THEN <<>>
    ELSE <<SEP>> \o Head(contents) \o EachAfterBlankLine(Tail(contents))

\* C21: for an expanded result with sequence index i in document d, the text
\* appended to its content is the content of the chunks of d with sequence
\* indices i+1, i+2 and i+3 that exist, in increasing index order, each
\* preceded by a blank line and placed after the original content; content of
\* other documents is never appended and a missing neighbor is skipped.
C21_NextChunksAppended ==
    ExpansionReturned =>
        \A k \in 1..Len(rt_hits) :
            rt_hits[k].score >= rt_args.score_threshold =>
                \E f \in InIndexOrder(NextChunks(rt_hits[k])) :
                    rt_result.chunks[k].content =
                        rt_hits[k].payload.content
                        \o EachAfterBlankLine(
                               [j \in 1..Len(f) |-> f[j].payload.content])

\* C22: store_chunks upserts the chunks in consecutive batches of at most
\* batch_size points, every input chunk belongs to exactly one batch, and on
\* success it returns the ids of all input chunks in input order.
C22_ConsecutiveBatches ==
    /\ \A k \in 1..Len(st_call.upserts) :
          /\ Len(st_call.upserts[k].ids) \in 1..st_call.batch_size
          /\ k < Len(st_call.upserts) =>
                Len(st_call.upserts[k].ids) = st_call.batch_size
    /\ \E n \in 0..Len(st_call.ids) :
          UpsertedIds(st_call.upserts) = SubSeq(st_call.ids, 1, n)
    /\ st_pc = "returned" =>
          /\ UpsertedIds(st_call.upserts) = st_call.ids
          /\ \A k \in 1..Len(st_call.upserts) : st_call.upserts[k].ok
          /\ st_result = [kind |-> "ids", ids |-> st_call.ids]
          /\ \A i \in 1..Len(st_call.ids) :
                \E p \in q_points : p.id = st_call.ids[i]

\* Three chunks were stored with batch_size 2: a batch of two, then one of one
C22_Witness ==
    /\ st_pc = "returned"
    /\ Len(st_call.ids) = 3
    /\ st_call.batch_size = 2
    /\ Len(st_call.upserts) = 2
    /\ Len(st_call.upserts[1].ids) = 2
    /\ Len(st_call.upserts[2].ids) = 1

\* C23: if the upsert of batch k of store_chunks fails, store_chunks raises
\* VectorStoreError and attempts no later batch, the points of the batches
\* before k stay stored, and the pipeline then marks the document failed
\* without removing those points.
C23_PartialUpsertKept ==
    (st_pc = "raised" /\ st_result.kind = "VectorStoreError") =>
        LET k == Len(st_call.upserts)
            before == UpsertedIds(SubSeq(st_call.upserts, 1, k - 1))
        IN /\ k >= 1
           /\ ~st_call.upserts[k].ok
           /\ \A j \in 1..(k - 1) : st_call.upserts[j].ok
           /\ before \o st_call.upserts[k].ids =
                  SubSeq(st_call.ids, 1, Len(before) + Len(st_call.upserts[k].ids))
           /\ Len(before) = (k - 1) * st_call.batch_size
           /\ \A i \in 1..Len(before) :
                 \E p \in q_points :
                    /\ p.id = before[i]
                    /\ p.payload = Payload(collected.chunks[i])
           /\ pl_pc \in {"handler", "done"} => "upsert" \in faults
           /\ pl_pc = "done" =>
                 /\ doc.status = "failed"
                 /\ "handler_update" \notin faults => db_row.status = "failed"

\* The second batch of three chunks failed, the document is failed and the
\* point of the first batch is in the collection
C23_Witness ==
    /\ pl_pc = "done"
    /\ st_result.kind = "VectorStoreError"
    /\ st_call.batch_size = 1
    /\ Len(st_call.ids) = 3
    /\ Len(st_call.upserts) = 2
    /\ db_row.status = "failed"
    /\ Cardinality(q_points) = 1

\* The block of the page a returned chunk was cut from
SourceBlock(chunk) ==
    CHOOSE i \in 1..Len(ck_page) : ck_page[i].start_index = chunk.content.block

\* C24: within one page, given blocks with populated positions, chunks are
\* emitted in non-decreasing order of their source block's position across
\* prose, code and table blocks, and chunks split from the same block keep the
\* splitter's order; hence a chunk with a smaller sequence index never has a
\* strictly later position on the page than one with a larger index.
C24_PositionOrder ==
    ck_pc = "returned" =>
        LET chunks == ck_result.chunks
        IN /\ \A i \in 1..Len(chunks) : chunks[i].chunk_index = i - 1
           /\ \A i, j \in 1..Len(chunks) :
                 i < j =>
                    /\ GetPosition(ck_page[SourceBlock(chunks[i])])
                           <= GetPosition(ck_page[SourceBlock(chunks[j])])
                    /\ chunks[i].content.block = chunks[j].content.block =>
                           chunks[i].content.part < chunks[j].content.part
           /\ Len(chunks) = Len(ck_positioned)

\* A code block above a prose block cut in two: the chunks come code, prose,
\* prose, though the prose loop ran first
C24_Witness ==
    /\ ck_pc = "returned"
    /\ Len(ck_page) = 2
    /\ ck_page[1].kind = "code"
    /\ ck_page[2].kind = "text"
    /\ Len(ck_result.chunks) = 3
    /\ ck_result.chunks[1].content.kind = "code"
    /\ ck_result.chunks[2].content.kind = "text"
    /\ ck_result.chunks[2].content.part = 1
    /\ ck_result.chunks[3].content.part = 2

\* C26: if summarization of a code or table block fails, the block is still
\* chunked, with a truncated raw-content stand-in (at most the first 100
\* characters of the block) in place of the summary; the failure is never
\* surfaced and never aborts the page.
C26_TruncatedStandIn ==
    ck_pc = "returned" =>
        \A i \in 1..Len(ck_page) :
            ck_page[i].start_index \in ck_failed =>
                LET cut == {k \in 1..Len(ck_result.chunks) :
                               ck_result.chunks[k].content.block =
                                   ck_page[i].start_index}
                IN /\ Cardinality(cut) = ck_page[i].parts
                   /\ \A k \in cut :
                         /\ ck_result.chunks[k].content.summary =
                                TruncatedSummary(ck_page[i].chars)
                         /\ ck_result.chunks[k].content.summary.raw_chars
                                <= fallback_chars

\* C25: the page number with which a chunk is stored in the vector store is
\* the page number reported for that chunk in a retrieved result, as are its
\* document id and sequence index, and its content up to the expansion.
C25_PageNumberRoundTrip ==
    (rt_pc = "returned" /\ rt_exists_answer = "yes") =>
        \A k \in 1..Len(rt_result.chunks) :
            \E p \in q_points :
                /\ p.id = rt_result.chunks[k].chunk_id
                /\ rt_result.chunks[k].document_id = p.payload.document_id
                /\ rt_result.chunks[k].chunk_index = p.payload.chunk_index
                /\ SubSeq(rt_result.chunks[k].content, 1,
                          Len(p.payload.content)) = p.payload.content
                /\ rt_result.chunks[k].page_number = p.payload.page_number

\* C27: ensuring a user's collection is idempotent: when the collection exists
\* nothing is created or changed; when it is absent the collection is created
\* with a dense and a sparse named vector and payload indexes on document id,
\* sequence index and page number; two calls in sequence leave the same state
\* as one call.
C27_EnsureIdempotent ==
    /\ en_before.exists => Collection = en_before
    /\ en_pc = "returned" =>
          /\ q_exists
          /\ ~en_before.exists =>
                /\ en_created
                /\ {v.name : v \in q_schema.vectors} = {"text-dense", "text-sparse"}
                /\ \E v \in q_schema.vectors :
                      v.name = "text-dense" /\ v.size = en_size
                /\ {x.field_name : x \in q_schema.indexes} =
                       {"document_id", "chunk_index", "page_number"}
                /\ q_points = {}
          /\ en_calls >= 2 /\ en_before.exists => ~en_created

\* A first call created the collection for vectors of one size and a second
\* call for the other size returned and left it as it was
C27_Witness ==
    /\ en_pc = "returned"
    /\ en_calls = 2
    /\ en_before.exists
    /\ en_before.schema = FullSchema(384)
    /\ en_size = 768
    /\ q_schema = FullSchema(384)
    /\ q_points = {}

\* C28 as stated: a terminal status is absorbing: the status of a Document
\* goes from processing to exactly one of completed or failed, and once set to
\* completed it is never set to failed, nor the reverse, by any continuation
\* of the pipeline.
C28_TerminalAbsorbing ==
    [][/\ doc.status \in TerminalStatus => doc'.status = doc.status
       /\ db_row.status \in TerminalStatus => db_row'.status = db_row.status]_vars

\* C28, amended: a persisted terminal status is absorbing and so is failed on
\* the entity; the entity goes from completed to failed only in the failure
\* handler that follows a final update that raised, and the row was then
\* never completed.
C28_PersistedTerminalAbsorbing ==
    [][/\ db_row.status \in TerminalStatus => db_row'.status = db_row.status
       /\ doc.status = "failed" => doc'.status = "failed"
       /\ doc.status = "completed" /\ doc'.status = "failed" =>
             /\ pl_pc = "handler"
             /\ "final_update" \in faults
             /\ db_row.status = "processing"
       /\ doc.status = "processing" /\ doc'.status = "completed" =>
             pl_pc = "final_update"]_vars

\* The final update raised on a document whose chunks were stored: the
\* entity, set to completed, was set to failed and the row went from
\* processing to failed
C28_Witness ==
    /\ pl_pc = "done"
    /\ faults = {"final_update"}
    /\ doc.status = "failed"
    /\ db_row.status = "failed"
    /\ doc.chunks_count > 0

\* C29: under fair scheduling and backends that always respond, every page
\* batch eventually acquires the semaphore, finishes with a result triple and
\* releases its permit, also when it raises, so the gather over all batches
\* completes for any number of batches larger than the semaphore capacity: no
\* deadlock, no lost permit, no exception escaping a batch.
C29_GatherCompletes ==
    (pl_pc = "gather") ~>
        (/\ pl_pc \notin {"gather", "handler"}
         /\ \A b \in 1..Len(batch) :
               /\ batch[b].pc = "done"
               /\ batch[b].outcome = "return"
               /\ Len(batch[b].result.dense) = Len(batch[b].result.chunks)
               /\ Len(batch[b].result.sparse) = Len(batch[b].result.chunks)
         /\ semaphore = max_parallel_pages)

\* Three batches over a semaphore of one permit, one of them failed while
\* chunking or embedding, have all finished and the gather has resolved
C29_Witness ==
    /\ pl_pc \in {"upsert", "final_update"}
    /\ max_parallel_pages = 1
    /\ Len(batch) > 2
    /\ \A b \in 1..Len(batch) : batch[b].pc = "done"
    /\ \E b \in 1..Len(batch) : batch[b].raised
    /\ semaphore = 1

\* C30: UploadDocument.execute returns the Document with status processing
\* only after both the blob upload and the record save have completed, and the
\* background pipeline is started only after the save succeeded: no pipeline
\* step ever runs for a document whose record was not saved.
C30_ReturnedAndStartedAfterSave ==
    \A r \in DOMAIN up_pc :
        /\ up_result[r].kind = "document" =>
              /\ up_pc[r] = "returned"
              /\ r \in blobs
              /\ \E d \in db_docs : d.id = up_result[r].ref /\ d.status = "processing"
        /\ r \in pipelines =>
              /\ r \in blobs
              /\ \E d \in db_docs : d.id = r
              /\ up_pc[r] = "returned"
        /\ up_pc[r] \in {"start", "upload", "save", "rollback", "raised"} =>
              r \notin pipelines /\ up_result[r].kind # "document"

\* One request returned its Document and has its pipeline started; the save
\* of another raised and no pipeline was started for it
C30_Witness ==
    \E r, r2 \in DOMAIN up_pc :
        /\ up_pc[r] = "returned"
        /\ r \in pipelines
        /\ up_pc[r2] = "raised"
        /\ up_atomic_error[r2] = "save"
        /\ r2 \notin pipelines

\* C10: the page extractor returns one entry per physical page in page order,
\* pages without extractable text included, so total_pages is the physical
\* page count and the page numbers are contiguous.
C10_OneEntryPerPhysicalPage ==
    (ext_pc = "returned" /\ page_data.kind = "list") =>
        /\ total_pages = Len(page_data.pages)
        /\ Len(page_chunks) = Len(page_data.pages)
        /\ \A i \in 1..Len(page_chunks) : page_chunks[i][1] = i

====
